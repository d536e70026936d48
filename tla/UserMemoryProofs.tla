-------------------------- MODULE UserMemoryProofs --------------------------
(***************************************************************************)
(* Proofs about UserMemory for every program, every page size and every    *)
(* call: Elf::parse finds what the file's header and program headers say,  *)
(* create_from_elf builds the memory they ask for, and the kernel's copies *)
(* go to the memory that the program sees.                                 *)
(***************************************************************************)
EXTENDS UserMemory, WellFoundedInduction, TLAPS

-----------------------------------------------------------------------------
(* Arithmetic. *)
LEMMA TimesNat ==
  ASSUME NEW a \in Nat, NEW b \in Nat
  PROVE  a * b \in Nat
OBVIOUS

LEMMA TimesMono ==
  ASSUME NEW a \in Int, NEW b \in Int, NEW n \in Nat, a =< b
  PROVE  a * n =< b * n
OBVIOUS

LEMMA TimesAdd ==
  ASSUME NEW a \in Int, NEW b \in Int, NEW n \in Int
  PROVE  (a + b) * n = a * n + b * n
OBVIOUS

LEMMA TimesAssoc ==
  ASSUME NEW a \in Int, NEW b \in Int, NEW n \in Int
  PROVE  a * (b * n) = (a * b) * n /\ a * b = b * a
OBVIOUS

LEMMA DivMod ==
  ASSUME NEW x \in Int, NEW n \in Int, n > 0
  PROVE  \E q \in Int, r \in Int : x = n * q + r /\ r = x % n /\ q = x \div n
OBVIOUS

LEMMA DivType ==
  ASSUME NEW x \in Nat, NEW n \in Nat, n >= 1
  PROVE  \E q \in Nat, r \in 0..(n - 1) : q = x \div n /\ r = x % n /\ x = q * n + r
<1>1. x % n \in 0..(n - 1)
  OBVIOUS
<1>2. PICK d \in Int, e \in Int : d = x \div n /\ e = x % n /\ x = n * d + e
  BY n > 0, DivMod
<1>3. n * d = d * n
  BY TimesAssoc
<1>4. PICK t \in Int : t = d * n
  OBVIOUS
<1>5. d >= 0
  <2> SUFFICES ASSUME d =< -1 PROVE FALSE
    OBVIOUS
  <2>1. d * n =< (-1) * n /\ (-1) * n = -n
    BY TimesMono
  <2> QED BY ONLY <1>1, <1>2, <1>3, <1>4, <2>1, n \in Nat, n >= 1, x \in Nat
<1>6. x = d * n + e
  BY <1>2, <1>3
<1> QED BY ONLY <1>1, <1>2, <1>5, <1>6

LEMMA DivUnique ==
  ASSUME NEW x \in Nat, NEW n \in Nat, n >= 1, NEW q \in Nat, NEW r \in 0..(n - 1),
         x = q * n + r
  PROVE  x \div n = q /\ x % n = r
<1>1. PICK p \in Nat, s \in 0..(n - 1) : p = x \div n /\ s = x % n /\ x = p * n + s
  BY DivType
<1>2. ASSUME p < q PROVE FALSE
  <2>1. (p + 1) * n =< q * n
    BY <1>2, TimesMono
  <2>2. (p + 1) * n = p * n + 1 * n /\ 1 * n = n
    BY TimesAdd
  <2>3. p * n \in Nat /\ q * n \in Nat
    BY TimesNat
  <2> HIDE <1>2
  <2> QED BY <1>1, <2>1, <2>2, <2>3
<1>3. ASSUME q < p PROVE FALSE
  <2>1. (q + 1) * n =< p * n
    BY <1>3, TimesMono
  <2>2. (q + 1) * n = q * n + 1 * n /\ 1 * n = n
    BY TimesAdd
  <2>3. p * n \in Nat /\ q * n \in Nat
    BY TimesNat
  <2> QED BY <1>1, <2>1, <2>2, <2>3
<1>4. p = q
  BY <1>2, <1>3
<1>5. q * n \in Nat
  BY TimesNat
<1> QED BY <1>1, <1>4, <1>5

-----------------------------------------------------------------------------
(* The units of a number. *)
LEMMA BaseType == Base \in Nat /\ Base >= 1 /\ Base * Base \in Nat /\ Base * Base >= 1
<1>1. Base \in Nat /\ Base >= 1
  BY ElfAssumption
<1>2. 1 * Base =< Base * Base /\ 1 * Base = Base
  BY <1>1, TimesMono
<1> QED BY <1>1, <1>2, TimesNat

(* Two units. *)
LEMMA LongUnits ==
  ASSUME NEW v \in Long
  PROVE  \E a \in Half, b \in Half :
           v = a + Base * b /\ v % Base = a /\ v \div Base = b
<1>1. PICK b \in Nat, a \in 0..(Base - 1) :
        b = v \div Base /\ a = v % Base /\ v = b * Base + a
  <2>1. v \in Nat
    BY BaseType DEF Long
  <2> QED BY <2>1, BaseType, DivType
<1>2. b < Base
  <2> SUFFICES ASSUME Base =< b PROVE FALSE
    BY BaseType
  <2>1. Base * Base =< b * Base
    BY BaseType, TimesMono
  <2> QED BY <1>1, <2>1, BaseType, TimesNat DEF Long
<1>3. b * Base = Base * b
  BY BaseType, TimesAssoc
<1>4. b * Base \in Nat
  BY BaseType, TimesNat
<1>5. v = a + Base * b
  BY <1>1, <1>3, <1>4, BaseType
<1>6. a \in Half /\ b \in Half
  BY <1>2, BaseType DEF Half
<1>7. v % Base = a /\ v \div Base = b
  BY <1>1
<1> QED BY ONLY <1>5, <1>6, <1>7

LEMMA Weights ==
  Weight[0] = 1 /\ Weight[1] = Base /\ Weight[2] = Base * Base /\ Weight[3] = (Base * Base) * Base
BY DEF Weight

LEMMA SmallMod ==
  ASSUME NEW a \in Half
  PROVE  a % Base = a
<1>1. a \in Nat /\ a \in 0..(Base - 1) /\ a = 0 * Base + a
  BY BaseType DEF Half
<1> QED BY <1>1, BaseType, DivUnique

LEMMA DivOne ==
  ASSUME NEW x \in Nat
  PROVE  x \div 1 = x
OBVIOUS

(* The units that Encoded writes for a number. *)
Digit(v, i) == (v \div Weight[i]) % Base

LEMMA LongDigits ==
  ASSUME NEW v \in Long
  PROVE  Digit(v, 0) \in Half /\ Digit(v, 1) \in Half /\ v = Digit(v, 0) + Base * Digit(v, 1)
<1>1. PICK a \in Half, b \in Half : v = a + Base * b /\ v % Base = a /\ v \div Base = b
  BY LongUnits
<1>2. v \in Nat
  BY BaseType DEF Long
<1>3. Digit(v, 0) = a
  BY <1>1, <1>2, Weights, DivOne DEF Digit
<1>4. Digit(v, 1) = b
  BY <1>1, Weights, SmallMod DEF Digit
<1> QED BY <1>1, <1>3, <1>4

LEMMA WideDigits ==
  ASSUME NEW v \in Nat, v \div (Base * Base) \in Long
  PROVE  /\ \A i \in 0..3 : Digit(v, i) \in Half
         /\ v = (Digit(v, 0) + Base * Digit(v, 1))
                + (Base * Base) * (Digit(v, 2) + Base * Digit(v, 3))
<1> DEFINE B == Base
           N == Base * Base
<1>0. B \in Nat /\ B >= 1 /\ N \in Nat /\ N >= 1 /\ N = B * B
  BY BaseType
<1>1. PICK q \in Nat, r \in 0..(N - 1) : q = v \div N /\ v = q * N + r
  BY <1>0, DivType
<1>2. PICK a \in Half, b \in Half : r = a + B * b
  BY <1>0, LongUnits DEF Long
<1>3. PICK c \in Half, d \in Half : q = c + B * d /\ q % B = c
  BY <1>0, <1>1, LongUnits
<1>4. /\ a \in 0..(B - 1) /\ b \in 0..(B - 1) /\ c \in 0..(B - 1) /\ d \in 0..(B - 1)
      /\ a \in Nat /\ b \in Nat /\ c \in Nat /\ d \in Nat
  BY <1>0 DEF Half
<1>5. Half = 0..(B - 1)
  BY DEF Half
<1>6. Weight[0] = 1 /\ Weight[1] = B /\ Weight[2] = N /\ Weight[3] = N * B
  BY Weights
<1> HIDE DEF B, N
<1>7. q * N = (q * B) * B /\ B * b = b * B /\ (q * B + b) * B = (q * B) * B + b * B
  BY <1>0, <1>4, TimesAssoc, TimesAdd
<1>8. q * B \in Nat /\ q * N \in Nat /\ b * B \in Nat /\ (q * B) * B \in Nat
  BY <1>0, <1>4, TimesNat
<1>9. v = (q * B + b) * B + a
  BY ONLY <1>1, <1>2, <1>4, <1>7, <1>8, v \in Nat
<1>10. v \div B = q * B + b /\ v % B = a
  <2>1. q * B + b \in Nat
    BY <1>4, <1>8
  <2> QED BY <1>0, <1>4, <1>9, <2>1, DivUnique
<1>11. (q * B + b) % B = b
  BY <1>0, <1>4, <1>8, DivUnique
<1>12. v \div (N * B) = d
  <2>1. N * B \in Nat /\ c * N \in Nat /\ d * (N * B) \in Nat
    BY <1>0, <1>4, TimesNat
  <2>2. c * N =< (B - 1) * N /\ (B + (-1)) * N = B * N + (-1) * N /\ (-1) * N = -N
        /\ B * N = N * B
    BY <1>0, <1>4, TimesMono, TimesAdd, TimesAssoc
  <2>3. B - 1 = B + (-1)
    BY <1>0
  <2>4. c * N + r \in 0..((N * B) - 1)
    BY <1>0, <2>1, <2>2, <2>3
  <2>5. (c + B * d) * N = c * N + (B * d) * N /\ (B * d) * N = d * (N * B)
    <3>1. (c + B * d) * N = c * N + (B * d) * N
      BY <1>0, <1>4, TimesAdd
    <3>2. B * d = d * B /\ (d * B) * N = d * (B * N) /\ B * N = N * B
      BY <1>0, <1>4, TimesAssoc
    <3> QED BY <3>1, <3>2
  <2>6. v = d * (N * B) + (c * N + r)
    BY ONLY <1>0, <1>1, <1>3, <2>1, <2>5, v \in Nat
  <2>7. N * B >= 1
    BY <2>1, <2>4
  <2> QED BY <1>4, <2>1, <2>4, <2>6, <2>7, DivUnique
<1>13. Digit(v, 0) = a
  BY <1>6, <1>10, DivOne DEF Digit, B
<1>14. Digit(v, 1) = b
  BY <1>6, <1>10, <1>11 DEF Digit, B
<1>15. Digit(v, 2) = c
  BY <1>1, <1>3, <1>6 DEF Digit, B
<1>16. Digit(v, 3) = d
  BY <1>6, <1>12, SmallMod DEF Digit, B
<1>17. v = (a + B * b) + N * (c + B * d)
  <2>1. q * N = N * q
    BY <1>0, TimesAssoc
  <2> QED BY <1>1, <1>2, <1>3, <1>8, <2>1
<1>18. \A i \in 0..3 : i = 0 \/ i = 1 \/ i = 2 \/ i = 3
  OBVIOUS
<1> QED BY <1>13, <1>14, <1>15, <1>16, <1>17, <1>18 DEF B, N

-----------------------------------------------------------------------------
(* The fields of a file do not overlap, so Encode writes each of them. *)
Has(f, o) == f[1] =< o /\ o < f[1] + f[2]
OneField(fields) == \A f, g \in fields : \A o \in Nat : Has(f, o) /\ Has(g, o) => f = g

Place(f, o, e) == IF e = 1 THEN (o - f[1]) \div 2 ELSE (f[2] \div 2) - 1 - ((o - f[1]) \div 2)

LEMMA EncodedField ==
  ASSUME NEW fields, OneField(fields), NEW f \in fields, NEW o \in Nat, Has(f, o), NEW e
  PROVE  Encoded(fields, o, e) = Digit(f[3], Place(f, o, e))
<1> DEFINE g == CHOOSE g \in fields : g[1] =< o /\ o < g[1] + g[2]
<1>1. g \in fields /\ g[1] =< o /\ o < g[1] + g[2]
  BY DEF Has
<1>2. g = f
  BY <1>1 DEF OneField, Has
<1>3. \E x \in fields : x[1] =< o /\ o < x[1] + x[2]
  BY DEF Has
<1> QED BY <1>2, <1>3 DEF Encoded, Digit, Place

LEMMA ProgramOneField ==
  ASSUME NEW class \in {ELF_CLASS_32, ELF_CLASS_64}, NEW h
  PROVE  OneField(ProgramFields(class, h))
<1>1. CASE class = ELF_CLASS_32
  BY <1>1 DEF OneField, Has, ProgramFields
<1>2. CASE class = ELF_CLASS_64
  BY <1>2 DEF OneField, Has, ProgramFields, ELF_CLASS_32, ELF_CLASS_64
<1> QED BY <1>1, <1>2

LEMMA HeaderOneField ==
  ASSUME NEW class \in {ELF_CLASS_32, ELF_CLASS_64}, NEW a, NEW b, NEW c, NEW d, NEW e
  PROVE  OneField(HeaderFields(class, a, b, c, d, e))
<1>1. CASE class = ELF_CLASS_32
  BY <1>1 DEF OneField, Has, HeaderFields
<1>2. CASE class = ELF_CLASS_64
  BY <1>2 DEF OneField, Has, HeaderFields, ELF_CLASS_32, ELF_CLASS_64
<1> QED BY <1>1, <1>2

(* The first n units of u are a part of a file with these fields. *)
Holds(u, fields, e, n) == \A k \in 0..(n - 1) : u[k + 1] = Encoded(fields, 2 * k, e)

LEMMA UnitAt ==
  ASSUME NEW u, NEW k \in Nat, NEW i \in Nat
  PROVE  Unit(u, 2 * k, i) = u[(k + i) + 1]
<1>1. (2 * k) \div 2 = k /\ k + 1 + i = (k + i) + 1
  OBVIOUS
<1> QED BY <1>1 DEF Unit

(* A field of w units at unit k, in the first n units. *)
FieldAt(fields, n, k, w, v) == <<2 * k, 2 * w, v>> \in fields /\ k + w =< n

(* Unit i of it is the one of v that belongs there. *)
Written(u, k, i, e, w, v) == Unit(u, 2 * k, i) = Digit(v, IF e = 1 THEN i ELSE w - 1 - i)

LEMMA ReadUnit ==
  ASSUME NEW u, NEW fields, NEW e \in {1, 2}, NEW n \in Nat, Holds(u, fields, e, n),
         OneField(fields), NEW k \in Nat, NEW w \in {1, 2, 4}, NEW v,
         FieldAt(fields, n, k, w, v), NEW i \in 0..(w - 1)
  PROVE  Written(u, k, i, e, w, v)
<1> DEFINE f == <<2 * k, 2 * w, v>>
           o == 2 * (k + i)
<1>0. i \in Nat /\ w \in Nat /\ w >= 1 /\ k + w =< n /\ f \in fields
  BY DEF FieldAt
<1>1. k + i \in 0..(n - 1) /\ o \in Nat
  BY <1>0
<1>2. Unit(u, 2 * k, i) = Encoded(fields, o, e)
  BY <1>0, <1>1, UnitAt DEF Holds
<1>3. f[1] = 2 * k /\ f[2] = 2 * w /\ f[3] = v
  OBVIOUS
<1>4. Has(f, o)
  BY <1>0, <1>3 DEF Has
<1>5. Place(f, o, e) = IF e = 1 THEN i ELSE w - 1 - i
  <2>1. (o - 2 * k) \div 2 = i /\ (2 * w) \div 2 = w
    BY <1>0
  <2> HIDE DEF f, o
  <2> QED BY <1>3, <2>1 DEF Place
<1> HIDE DEF f, o
<1>6. Encoded(fields, o, e) = Digit(f[3], Place(f, o, e))
  BY <1>0, <1>1, <1>4, EncodedField
<1> QED BY <1>2, <1>3, <1>5, <1>6 DEF Written

LEMMA ReadU16 ==
  ASSUME NEW u, NEW fields, NEW e \in {1, 2}, NEW n \in Nat, Holds(u, fields, e, n),
         OneField(fields), NEW k \in Nat, NEW v \in Half, FieldAt(fields, n, k, 1, v)
  PROVE  U16(u, 2 * k) = v
<1>1. Unit(u, 2 * k, 0) = Digit(v, 0)
  <2>1. Written(u, k, 0, e, 1, v)
    BY ReadUnit
  <2> QED BY <2>1 DEF Written
<1>2. v \in Nat
  BY BaseType DEF Half
<1>3. Digit(v, 0) = v
  BY <1>2, Weights, DivOne, SmallMod DEF Digit
<1> QED BY <1>1, <1>3 DEF U16

ReadsLong(u, e, k, v) == U32(u, 2 * k, e) = v

LEMMA ReadU32 ==
  ASSUME NEW u, NEW fields, NEW e \in {1, 2}, NEW n \in Nat, Holds(u, fields, e, n),
         OneField(fields), NEW k \in Nat, NEW v \in Long, FieldAt(fields, n, k, 2, v)
  PROVE  ReadsLong(u, e, k, v)
<1>2. /\ Unit(u, 2 * k, 0) = Digit(v, IF e = 1 THEN 0 ELSE 1)
      /\ Unit(u, 2 * k, 1) = Digit(v, IF e = 1 THEN 1 ELSE 0)
  <2>1. Written(u, k, 0, e, 2, v) /\ Written(u, k, 1, e, 2, v)
    BY ReadUnit
  <2> QED BY <2>1 DEF Written
<1>3. PICK a \in Nat, b \in Nat : /\ a = Digit(v, 0) /\ b = Digit(v, 1)
                                  /\ v = a + Base * b
  BY LongDigits, BaseType DEF Half
<1>4. Base * b \in Nat
  BY BaseType, TimesNat
<1>5. CASE e = 1
  BY <1>2, <1>3, <1>5 DEF U32, ReadsLong
<1>6. CASE e # 1
  <2>1. U32(u, 2 * k, e) = Base * b + a
    BY <1>2, <1>3, <1>6 DEF U32
  <2> QED BY <1>3, <1>4, <2>1 DEF ReadsLong
<1> QED BY <1>5, <1>6

LEMMA ReadU64 ==
  ASSUME NEW u, NEW fields, NEW e \in {1, 2}, NEW n \in Nat, Holds(u, fields, e, n),
         OneField(fields), NEW k \in Nat, NEW v \in Nat, v \div (Base * Base) \in Long,
         FieldAt(fields, n, k, 4, v)
  PROVE  U64(u, 2 * k, e) = v
<1>2. ASSUME NEW i \in 0..(4 - 1)
      PROVE  Unit(u, 2 * k, i) = Digit(v, IF e = 1 THEN i ELSE 4 - 1 - i)
  <2>1. Written(u, k, i, e, 4, v)
    BY ReadUnit
  <2> QED BY <2>1 DEF Written
<1>3. /\ Unit(u, 2 * k, 2) = Unit(u, 2 * k + 4, 0)
      /\ Unit(u, 2 * k, 3) = Unit(u, 2 * k + 4, 1)
  <2>1. 2 * k + 4 = 2 * (k + 2) /\ k + 2 \in Nat
    OBVIOUS
  <2>2. PICK j \in Nat : j = k + 2 /\ 2 * k + 4 = 2 * j
    BY <2>1
  <2>3. Unit(u, 2 * j, 0) = u[(j + 0) + 1] /\ Unit(u, 2 * j, 1) = u[(j + 1) + 1]
    BY UnitAt
  <2>4. Unit(u, 2 * k, 2) = u[(k + 2) + 1] /\ Unit(u, 2 * k, 3) = u[(k + 3) + 1]
    BY UnitAt
  <2>5. j + 0 = k + 2 /\ j + 1 = k + 3
    BY <2>2
  <2> QED BY <2>2, <2>3, <2>4, <2>5
<1>4. PICK a \in Nat, b \in Nat, c \in Nat, d \in Nat :
        /\ a = Digit(v, 0) /\ b = Digit(v, 1) /\ c = Digit(v, 2) /\ d = Digit(v, 3)
        /\ v = (a + Base * b) + (Base * Base) * (c + Base * d)
  <2>1. /\ Digit(v, 0) \in Half /\ Digit(v, 1) \in Half
        /\ Digit(v, 2) \in Half /\ Digit(v, 3) \in Half
    BY WideDigits
  <2>2. /\ Digit(v, 0) \in Nat /\ Digit(v, 1) \in Nat
        /\ Digit(v, 2) \in Nat /\ Digit(v, 3) \in Nat
    BY <2>1, BaseType DEF Half
  <2>3. v = (Digit(v, 0) + Base * Digit(v, 1))
            + (Base * Base) * (Digit(v, 2) + Base * Digit(v, 3))
    BY WideDigits
  <2> QED BY ONLY <2>2, <2>3
<1>5. Base * b \in Nat /\ Base * d \in Nat
  BY BaseType, TimesNat
<1>6. (Base * Base) * (c + Base * d) \in Nat
  BY <1>5, BaseType, TimesNat
<1>7. CASE e = 1
  <2>1. /\ Unit(u, 2 * k, 0) = a /\ Unit(u, 2 * k, 1) = b
        /\ Unit(u, 2 * k + 4, 0) = c /\ Unit(u, 2 * k + 4, 1) = d
    BY <1>2, <1>3, <1>4, <1>7
  <2> QED BY <1>4, <1>7, <2>1 DEF U32, U64
<1>8. CASE e # 1
  <2>1. /\ Unit(u, 2 * k, 0) = d /\ Unit(u, 2 * k, 1) = c
        /\ Unit(u, 2 * k + 4, 0) = b /\ Unit(u, 2 * k + 4, 1) = a
    BY <1>2, <1>3, <1>4, <1>8
  <2>2. U64(u, 2 * k, e) = (Base * Base) * (Base * d + c) + (Base * b + a)
    BY <1>8, <2>1 DEF U32, U64
  <2>3. Base * d + c = c + Base * d /\ Base * b + a = a + Base * b
    BY <1>5
  <2> QED BY <1>4, <1>5, <1>6, <2>2, <2>3
<1> QED BY <1>7, <1>8

-----------------------------------------------------------------------------
(* Where Encode puts the parts of a file, in units. *)
HSize(class) == IF class = ELF_CLASS_32 THEN 26 ELSE 32
PSize(class) == IF class = ELF_CLASS_32 THEN 16 ELSE 28

LEMMA Sizes ==
  ASSUME NEW class \in {ELF_CLASS_32, ELF_CLASS_64}, NEW j \in Nat
  PROVE  /\ HSize(class) \in Nat /\ PSize(class) \in Nat /\ j * PSize(class) \in Nat
         /\ (IF class = ELF_CLASS_32 THEN 52 ELSE 64) = 2 * HSize(class)
         /\ (2 * HSize(class) + j * PhSize[class]) \div 2 = HSize(class) + j * PSize(class)
         /\ \A k \in 0..(PSize(class) - 1) :
              /\ (2 * ((HSize(class) + j * PSize(class)) + k) - 2 * HSize(class)) \div PhSize[class] = j
              /\ (2 * ((HSize(class) + j * PSize(class)) + k) - 2 * HSize(class)) % PhSize[class] = 2 * k
<1>1. CASE class = ELF_CLASS_32
  <2>1. HSize(class) = 26 /\ PSize(class) = 16 /\ PhSize[class] = 32
    BY <1>1 DEF HSize, PSize, PhSize
  <2>2. (2 * 26 + j * 32) \div 2 = 26 + j * 16
    OBVIOUS
  <2>3. ASSUME NEW k \in 0..(16 - 1)
        PROVE  /\ (2 * ((26 + j * 16) + k) - 2 * 26) \div 32 = j
               /\ (2 * ((26 + j * 16) + k) - 2 * 26) % 32 = 2 * k
    <3>1. 2 * ((26 + j * 16) + k) - 2 * 26 = j * 32 + 2 * k
      OBVIOUS
    <3>2. j * 32 + 2 * k \in Nat /\ 2 * k \in 0..(32 - 1)
      OBVIOUS
    <3> QED BY <3>1, <3>2, DivUnique
  <2> QED BY <1>1, <2>1, <2>2, <2>3
<1>2. CASE class = ELF_CLASS_64
  <2>1. HSize(class) = 32 /\ PSize(class) = 28 /\ PhSize[class] = 56 /\ class # ELF_CLASS_32
    BY <1>2 DEF HSize, PSize, PhSize, ELF_CLASS_32, ELF_CLASS_64
  <2>2. (2 * 32 + j * 56) \div 2 = 32 + j * 28
    OBVIOUS
  <2>3. ASSUME NEW k \in 0..(28 - 1)
        PROVE  /\ (2 * ((32 + j * 28) + k) - 2 * 32) \div 56 = j
               /\ (2 * ((32 + j * 28) + k) - 2 * 32) % 56 = 2 * k
    <3>1. 2 * ((32 + j * 28) + k) - 2 * 32 = j * 56 + 2 * k
      OBVIOUS
    <3>2. j * 56 + 2 * k \in Nat /\ 2 * k \in 0..(56 - 1)
      OBVIOUS
    <3> QED BY <3>1, <3>2, DivUnique
  <2> QED BY <2>1, <2>2, <2>3
<1> QED BY <1>1, <1>2

(* The file of program p and its parts. *)
FileOf(p) == Encode(p.class, p.endian, p.abi, p.type, p.machine, p.entry, p.headers)
Top(p) == HeaderFields(p.class, p.entry, 2 * HSize(p.class), Len(p.headers), p.type, p.machine)
Units(p) == FileOf(p).units
Start(p, j) == HSize(p.class) + j * PSize(p.class)

LEMMA FileFacts ==
  ASSUME NEW p, Storable(p)
  PROVE  /\ FileOf(p).magic /\ FileOf(p).class = p.class /\ FileOf(p).endian = p.endian
         /\ Len(p.headers) \in Nat
         /\ Units(p) = [i \in 1..Start(p, Len(p.headers)) |->
              LET at == 2 * (i - 1)
              IN  IF at < 2 * HSize(p.class) THEN Encoded(Top(p), at, p.endian)
                  ELSE Encoded(ProgramFields(p.class,
                                 p.headers[((at - 2 * HSize(p.class)) \div PhSize[p.class]) + 1]),
                               (at - 2 * HSize(p.class)) % PhSize[p.class], p.endian)]
<1>1. p.class \in {ELF_CLASS_32, ELF_CLASS_64} /\ Len(p.headers) \in Nat
  BY DEF Storable
<1>2. /\ (IF p.class = ELF_CLASS_32 THEN 52 ELSE 64) = 2 * HSize(p.class)
      /\ (2 * HSize(p.class) + Len(p.headers) * PhSize[p.class]) \div 2 = Start(p, Len(p.headers))
  BY <1>1, Sizes DEF Start
<1> QED BY <1>1, <1>2 DEF FileOf, Units, Encode, Top

LEMMA TopHolds ==
  ASSUME NEW p, Storable(p)
  PROVE  /\ Holds(Units(p), Top(p), p.endian, HSize(p.class))
         /\ OneField(Top(p))
<1>1. p.class \in {ELF_CLASS_32, ELF_CLASS_64} /\ Len(p.headers) \in Nat
  BY DEF Storable
<1>2. PICK H \in Nat, n \in Nat :
        H = HSize(p.class) /\ n = Len(p.headers) * PSize(p.class) /\ Start(p, Len(p.headers)) = H + n
  BY <1>1, Sizes DEF Start
<1>3. ASSUME NEW k \in 0..(H - 1)
      PROVE  Units(p)[k + 1] = Encoded(Top(p), 2 * k, p.endian)
  <2>1. k + 1 \in 1..(H + n) /\ 2 * ((k + 1) - 1) = 2 * k /\ 2 * k < 2 * H
    OBVIOUS
  <2>2. Units(p)[k + 1] = LET at == 2 * ((k + 1) - 1)
              IN  IF at < 2 * HSize(p.class) THEN Encoded(Top(p), at, p.endian)
                  ELSE Encoded(ProgramFields(p.class,
                                 p.headers[((at - 2 * HSize(p.class)) \div PhSize[p.class]) + 1]),
                               (at - 2 * HSize(p.class)) % PhSize[p.class], p.endian)
    BY <1>2, <2>1, FileFacts
  <2> QED BY <1>2, <2>1, <2>2
<1>4. OneField(Top(p))
  BY <1>1, HeaderOneField DEF Top
<1> QED BY <1>2, <1>3, <1>4 DEF Holds

(* The units of the j-th program header, counted from 0. *)
HeaderUnits(p, j) == SubSeq(Units(p), Start(p, j) + 1, Start(p, j + 1))

LEMMA UnitsSeq ==
  ASSUME NEW n \in Nat, NEW u, u = [i \in 1..n |-> u[i]]
  PROVE  u \in Seq({u[i] : i \in 1..n}) /\ Len(u) = n
OBVIOUS

LEMMA HeaderHolds ==
  ASSUME NEW p, Storable(p), NEW j \in 0..(Len(p.headers) - 1)
  PROVE  /\ Holds(HeaderUnits(p, j), ProgramFields(p.class, p.headers[j + 1]), p.endian,
                  PSize(p.class))
         /\ OneField(ProgramFields(p.class, p.headers[j + 1]))
<1>1. p.class \in {ELF_CLASS_32, ELF_CLASS_64} /\ Len(p.headers) \in Nat /\ j \in Nat
  BY DEF Storable
<1>2. PICK H \in Nat, P \in Nat : H = HSize(p.class) /\ P = PSize(p.class)
  BY <1>1, Sizes
<1>3. PICK a \in Nat, b \in Nat, n \in Nat :
        /\ a = Start(p, j) /\ b = Start(p, j + 1) /\ n = Start(p, Len(p.headers))
        /\ a = H + j * P /\ b = a + P /\ b =< n
  <2>1. PICK l \in Nat : l = Len(p.headers) /\ j + 1 =< l
    BY <1>1
  <2>2. j * P \in Nat /\ (j + 1) * P \in Nat /\ l * P \in Nat
    BY <1>1, TimesNat
  <2>3. (j + 1) * P = j * P + 1 * P /\ 1 * P = P
    BY <1>1, TimesAdd
  <2>4. (j + 1) * P =< l * P
    BY <1>1, <2>1, TimesMono
  <2>5. /\ Start(p, j) = H + j * P /\ Start(p, j + 1) = H + (j + 1) * P
        /\ Start(p, Len(p.headers)) = H + l * P
    BY <1>2, <2>1 DEF Start
  <2> HIDE <2>1
  <2> QED BY <2>2, <2>3, <2>4, <2>5
<1>4. PICK u : u = Units(p) /\ u = [i \in 1..n |-> u[i]]
  BY <1>3, FileFacts
<1>5. ASSUME NEW k \in 0..(P - 1)
      PROVE  HeaderUnits(p, j)[k + 1] = Encoded(ProgramFields(p.class, p.headers[j + 1]),
                                                2 * k, p.endian)
  <2>1. HeaderUnits(p, j) = SubSeq(u, a + 1, b)
    BY <1>3, <1>4 DEF HeaderUnits
  <2>2. SubSeq(u, a + 1, b)[k + 1] = u[(a + k) + 1]
    <3>1. PICK T : u \in Seq(T) /\ Len(u) = n
      BY <1>4, UnitsSeq
    <3>2. PICK x \in Nat, y \in Nat : x = a + 1 /\ y = k + 1
      OBVIOUS
    <3>3. x \in 1..(Len(u) + 1) /\ b \in 0..Len(u) /\ y \in 1..(b - x + 1) /\ x + y - 1 = (a + k) + 1
      BY <1>3, <3>1, <3>2
    <3>4. SubSeq(u, x, b)[y] = u[x + y - 1]
      BY ONLY <3>1, <3>3, x \in Nat, b \in Nat, y \in Nat
    <3> QED BY <3>2, <3>3, <3>4
  <2>3. (a + k) + 1 \in 1..n /\ ((a + k) + 1) - 1 = a + k /\ ~(2 * (a + k) < 2 * H)
    <3>1. j * P \in Nat
      BY <1>1, TimesNat
    <3> QED BY <1>3, <3>1
  <2>4. u[(a + k) + 1] = LET at == 2 * (a + k)
              IN  Encoded(ProgramFields(p.class,
                                 p.headers[((at - 2 * HSize(p.class)) \div PhSize[p.class]) + 1]),
                               (at - 2 * HSize(p.class)) % PhSize[p.class], p.endian)
    <3>1. ASSUME NEW i \in 1..n, ~(2 * (i - 1) < 2 * HSize(p.class))
          PROVE  u[i] = LET at == 2 * (i - 1)
              IN  Encoded(ProgramFields(p.class,
                                 p.headers[((at - 2 * HSize(p.class)) \div PhSize[p.class]) + 1]),
                               (at - 2 * HSize(p.class)) % PhSize[p.class], p.endian)
      BY <1>3, <1>4, <3>1, FileFacts
    <3>2. PICK i \in 1..n : i = (a + k) + 1 /\ i - 1 = a + k
      BY <2>3
    <3> QED BY <1>2, <2>3, <3>1, <3>2
  <2>5. /\ (2 * ((H + j * P) + k) - 2 * H) \div PhSize[p.class] = j
        /\ (2 * ((H + j * P) + k) - 2 * H) % PhSize[p.class] = 2 * k
    <3>1. \A q \in 0..(PSize(p.class) - 1) :
            /\ (2 * ((HSize(p.class) + j * PSize(p.class)) + q) - 2 * HSize(p.class)) \div PhSize[p.class] = j
            /\ (2 * ((HSize(p.class) + j * PSize(p.class)) + q) - 2 * HSize(p.class)) % PhSize[p.class] = 2 * q
      BY <1>1, Sizes
    <3> QED BY <1>2, <3>1
  <2> QED BY <1>2, <1>3, <2>1, <2>2, <2>4, <2>5
<1>6. OneField(ProgramFields(p.class, p.headers[j + 1]))
  BY <1>1, ProgramOneField
<1> QED BY <1>2, <1>5, <1>6 DEF Holds

(* What an address-sized field takes. *)
LEMMA AddressFacts ==
  ASSUME NEW class \in {ELF_CLASS_32, ELF_CLASS_64}, NEW v \in Address(class)
  PROVE  /\ v \in Nat
         /\ class = ELF_CLASS_32 => v \in Long
         /\ class # ELF_CLASS_32 => v \div (Base * Base) \in Long
BY BaseType DEF Address, Long

(* Word reads an address-sized field at unit k32 or k64. *)
ReadsWord(u, class, e, k32, k64, v) == Word(u, class, e, 2 * k32, 2 * k64) = v

LEMMA ReadWord ==
  ASSUME NEW class \in {ELF_CLASS_32, ELF_CLASS_64}, NEW u, NEW fields, NEW e \in {1, 2},
         NEW n \in Nat, Holds(u, fields, e, n), OneField(fields), NEW v \in Address(class),
         NEW k32 \in Nat, NEW k64 \in Nat,
         class = ELF_CLASS_32 => FieldAt(fields, n, k32, 2, v),
         class # ELF_CLASS_32 => FieldAt(fields, n, k64, 4, v)
  PROVE  ReadsWord(u, class, e, k32, k64, v)
<1>1. CASE class = ELF_CLASS_32
  <2>1. v \in Long /\ FieldAt(fields, n, k32, 2, v)
    BY <1>1, AddressFacts
  <2>2. ReadsLong(u, e, k32, v)
    BY <2>1, ReadU32
  <2> QED BY <1>1, <2>2 DEF Word, ReadsWord, ReadsLong
<1>2. CASE class # ELF_CLASS_32
  <2>1. v \in Nat /\ v \div (Base * Base) \in Long /\ FieldAt(fields, n, k64, 4, v)
    BY <1>2, AddressFacts
  <2>2. U64(u, 2 * k64, e) = v
    BY <2>1, ReadU64
  <2> QED BY <1>2, <2>2 DEF Word, ReadsWord
<1> QED BY <1>1, <1>2

LEMMA BaseLarge == Base >= 8 /\ Base * Base >= 64 /\ \A n \in 0..63 : n \in Long
<1>1. Base >= 8
  BY ElfAssumption
<1>2. 8 * Base =< Base * Base
  BY <1>1, BaseType, TimesMono
<1> QED BY <1>1, <1>2, BaseType DEF Long

LEMMA TopRead ==
  ASSUME NEW p, Storable(p)
  PROVE  /\ Word(Units(p), p.class, p.endian, 24, 24) = p.entry
         /\ Word(Units(p), p.class, p.endian, 28, 32) = 2 * HSize(p.class)
         /\ U16(Units(p), IF p.class = ELF_CLASS_32 THEN 44 ELSE 56) = Len(p.headers)
<1>1. /\ p.class \in {ELF_CLASS_32, ELF_CLASS_64} /\ p.endian \in {1, 2}
      /\ p.entry \in Address(p.class) /\ Len(p.headers) \in Half
  BY DEF Storable
<1>2. PICK c \in {ELF_CLASS_32, ELF_CLASS_64}, e \in {1, 2}, n \in Nat :
        c = p.class /\ e = p.endian /\ n = HSize(c)
  BY <1>1, Sizes
<1>3. PICK u, F : u = Units(p) /\ F = Top(p) /\ Holds(u, F, e, n) /\ OneField(F)
  BY <1>2, TopHolds
<1>4. PICK entry \in Address(c), l \in Half : entry = p.entry /\ l = Len(p.headers)
  BY <1>1, <1>2
<1>5. F = HeaderFields(c, entry, 2 * n, l, p.type, p.machine)
  BY <1>2, <1>3, <1>4 DEF Top
<1>6. 2 * n \in Address(c)
  <2>1. CASE c = ELF_CLASS_32
    <3>1. 2 * n = 52
      BY <1>2, <2>1 DEF HSize
    <3> QED BY <2>1, <3>1, BaseLarge DEF Address
  <2>2. CASE c # ELF_CLASS_32
    <3>1. n = 32 /\ 2 * n = 64
      BY <1>2, <2>2 DEF HSize
    <3>2. 64 \div (Base * Base) \in 0..63
      <4>1. PICK N \in Nat, x \in Nat : N = Base * Base /\ N >= 64 /\ x = 64
        BY BaseLarge, BaseType
      <4>2. PICK q \in Nat, r \in 0..(N - 1) : q = x \div N /\ x = q * N + r
        <5>1. N >= 1
          BY <4>1
        <5> QED BY ONLY <5>1, N \in Nat, x \in Nat, DivType
      <4>3. q >= 2 => 2 * N =< q * N
        BY TimesMono
      <4>4. q * N \in Nat
        BY TimesNat
      <4> QED BY <4>1, <4>2, <4>3, <4>4
    <3> QED BY <2>2, <3>1, <3>2, BaseLarge DEF Address
  <2> QED BY <2>1, <2>2
<1>7. /\ c = ELF_CLASS_32 => FieldAt(F, n, 12, 2, entry) /\ FieldAt(F, n, 14, 2, 2 * n)
                             /\ FieldAt(F, n, 22, 1, l)
      /\ c # ELF_CLASS_32 => FieldAt(F, n, 12, 4, entry) /\ FieldAt(F, n, 16, 4, 2 * n)
                             /\ FieldAt(F, n, 28, 1, l)
  BY <1>2, <1>5 DEF HeaderFields, FieldAt, HSize
<1>8. ReadsWord(u, c, e, 12, 12, entry)
  BY <1>3, <1>7, ReadWord
<1>9. ReadsWord(u, c, e, 14, 16, 2 * n)
  BY <1>3, <1>6, <1>7, ReadWord
<1>10. c = ELF_CLASS_32 => U16(u, 2 * 22) = l
  BY <1>3, <1>7, ReadU16
<1>11. c # ELF_CLASS_32 => U16(u, 2 * 28) = l
  BY <1>3, <1>7, ReadU16
<1>12. 2 * 12 = 24 /\ 2 * 14 = 28 /\ 2 * 16 = 32 /\ 2 * 22 = 44 /\ 2 * 28 = 56
  OBVIOUS
<1> QED BY <1>2, <1>3, <1>4, <1>8, <1>9, <1>10, <1>11, <1>12 DEF ReadsWord

(* The header h as Program::parse reads it: in big-endian files the flags   *)
(* are those of another field.                                             *)
SameHeader(g, h, e) ==
  /\ g.p_type = h.p_type /\ g.p_offset = h.p_offset /\ g.v_addr = h.v_addr
  /\ g.p_filesz = h.p_filesz /\ g.p_memsz = h.p_memsz
  /\ g.p_flags \subseteq {"exec", "write", "read"}
  /\ e = 1 => g.p_flags = h.p_flags

(* The flags are read together with the four bytes after them, which add a  *)
(* multiple of 8.                                                          *)
LEMMA FlagsRead ==
  ASSUME NEW flags \in SUBSET {"exec", "write", "read"}, NEW y \in Nat
  PROVE  {f \in {"exec", "write", "read"} :
            HasBit(FlagBits(flags) + 8 * y,
                   CASE f = "exec" -> 1 [] f = "write" -> 2 [] OTHER -> 4)} = flags
<1> DEFINE F == FlagBits(flags) + 8 * y
<1>1. F = (IF "exec" \in flags THEN 1 ELSE 0) + (IF "write" \in flags THEN 2 ELSE 0)
          + (IF "read" \in flags THEN 4 ELSE 0) + 8 * y
  BY DEF FlagBits
<1>2. HasBit(F, 1) <=> "exec" \in flags
  BY <1>1 DEF HasBit
<1>3. HasBit(F, 2) <=> "write" \in flags
  BY <1>1 DEF HasBit
<1>4. HasBit(F, 4) <=> "read" \in flags
  BY <1>1 DEF HasBit
<1> HIDE DEF F
<1> QED BY <1>2, <1>3, <1>4 DEF F

LEMMA BaseEight ==
  ASSUME NEW x \in Nat
  PROVE  \E y \in Nat : (Base * Base) * x = 8 * y
<1>1. PICK m \in Nat : Base = m * 8
  <2>1. PICK B \in Nat, z \in Nat : B = Base /\ z = 8
    BY BaseType
  <2>2. PICK q \in Nat, r \in 0..(z - 1) : r = B % z /\ B = q * z + r
    BY ONLY <2>1, B \in Nat, z \in Nat, DivType
  <2>3. r = 0
    BY <2>1, <2>2, ElfAssumption
  <2>4. q * z \in Nat
    BY TimesNat
  <2> QED BY <2>1, <2>2, <2>3, <2>4
<1>2. (Base * Base) * x = Base * (Base * x) /\ Base * x \in Nat
  BY BaseType, TimesAssoc, TimesNat
<1>3. PICK t \in Nat : t = Base * x
  BY <1>2
<1>4. (m * 8) * t = 8 * (m * t)
  <2>1. (m * 8) * t = m * (8 * t) /\ 8 * t = t * 8
    BY TimesAssoc
  <2>2. m * (t * 8) = (m * t) * 8 /\ (m * t) * 8 = 8 * (m * t)
    BY TimesNat, TimesAssoc
  <2> QED BY <2>1, <2>2
<1> QED BY <1>1, <1>2, <1>3, <1>4, TimesNat

LEMMA ProgramRead ==
  ASSUME NEW p, Storable(p), NEW j \in 0..(Len(p.headers) - 1)
  PROVE  SameHeader(ProgramParse(HeaderUnits(p, j), p.class, p.endian), p.headers[j + 1], p.endian)
<1>1. p.class \in {ELF_CLASS_32, ELF_CLASS_64} /\ p.endian \in {1, 2}
  BY DEF Storable
<1>2. PICK c \in {ELF_CLASS_32, ELF_CLASS_64}, e \in {1, 2}, n \in Nat :
        c = p.class /\ e = p.endian /\ n = PSize(c)
  BY <1>1, Sizes, 0 \in Nat
<1>3. PICK h \in ProgramHeader(c) : h = p.headers[j + 1]
  <2>1. p.headers \in Seq(ProgramHeader(c)) /\ j + 1 \in 1..Len(p.headers)
    BY <1>2 DEF Storable, Half
  <2> QED BY ONLY <2>1
<1>4. PICK u, F : /\ u = HeaderUnits(p, j) /\ F = ProgramFields(c, h)
                  /\ Holds(u, F, e, n) /\ OneField(F)
  BY <1>2, <1>3, HeaderHolds
<1>5. /\ h.p_type \in Long /\ h.p_flags \in SUBSET {"exec", "write", "read"}
      /\ h.p_offset \in Address(c) /\ h.v_addr \in Address(c)
      /\ h.p_filesz \in Address(c) /\ h.p_memsz \in Address(c)
  BY DEF ProgramHeader
<1>6. c = ELF_CLASS_32 =>
        /\ FieldAt(F, n, 0, 2, h.p_type) /\ FieldAt(F, n, 2, 2, h.p_offset)
        /\ FieldAt(F, n, 4, 2, h.v_addr) /\ FieldAt(F, n, 8, 2, h.p_filesz)
        /\ FieldAt(F, n, 10, 2, h.p_memsz) /\ FieldAt(F, n, 12, 2, FlagBits(h.p_flags))
        /\ FieldAt(F, n, 14, 2, 8)
  BY <1>2, <1>4 DEF ProgramFields, FieldAt, PSize
<1>7. c # ELF_CLASS_32 =>
        /\ FieldAt(F, n, 0, 2, h.p_type) /\ FieldAt(F, n, 4, 4, h.p_offset)
        /\ FieldAt(F, n, 8, 4, h.v_addr) /\ FieldAt(F, n, 16, 4, h.p_filesz)
        /\ FieldAt(F, n, 20, 4, h.p_memsz) /\ FieldAt(F, n, 2, 2, FlagBits(h.p_flags))
  BY <1>2, <1>4 DEF ProgramFields, FieldAt, PSize
<1>8. ReadsLong(u, e, 0, h.p_type)
  <2>1. FieldAt(F, n, 0, 2, h.p_type)
    BY <1>6, <1>7
  <2> QED BY <1>4, <1>5, <2>1, ReadU32
<1>9. /\ ReadsWord(u, c, e, 2, 4, h.p_offset) /\ ReadsWord(u, c, e, 4, 8, h.v_addr)
      /\ ReadsWord(u, c, e, 8, 16, h.p_filesz) /\ ReadsWord(u, c, e, 10, 20, h.p_memsz)
  BY <1>4, <1>5, <1>6, <1>7, ReadWord
<1>10. PICK g : g = ProgramParse(u, c, e)
  OBVIOUS
<1>11. /\ g.p_type = U32(u, 0, e) /\ g.p_offset = Word(u, c, e, 4, 8)
       /\ g.v_addr = Word(u, c, e, 8, 16) /\ g.p_filesz = Word(u, c, e, 16, 32)
       /\ g.p_memsz = Word(u, c, e, 20, 40)
       /\ g.p_flags = {f \in {"exec", "write", "read"} :
                         HasBit(U64(u, IF c = ELF_CLASS_64 THEN 4 ELSE 24, e),
                                CASE f = "exec" -> 1 [] f = "write" -> 2 [] OTHER -> 4)}
  BY <1>10 DEF ProgramParse
<1>12. ASSUME e = 1 PROVE g.p_flags = h.p_flags
  <2>1. FlagBits(h.p_flags) \in 0..7
    BY DEF FlagBits
  <2>2. FlagBits(h.p_flags) \in Long
    <3>1. FlagBits(h.p_flags) \in 0..63
      BY <2>1
    <3> QED BY <3>1, BaseLarge
  <2>3. PICK x \in Nat : U64(u, IF c = ELF_CLASS_64 THEN 4 ELSE 24, e)
                         = FlagBits(h.p_flags) + (Base * Base) * x
    <3>1. CASE c = ELF_CLASS_32
      <4>0. PICK z \in Long : z = 8
        <5>1. 8 \in 0..63
          OBVIOUS
        <5> QED BY <5>1, BaseLarge
      <4>1. ReadsLong(u, e, 12, FlagBits(h.p_flags)) /\ ReadsLong(u, e, 14, z)
        BY <1>4, <1>6, <2>2, <3>1, <4>0, ReadU32
      <4>2. 2 * 12 = 24 /\ 2 * 14 = 24 + 4 /\ c # ELF_CLASS_64
        BY <3>1 DEF ELF_CLASS_32, ELF_CLASS_64
      <4> QED BY <1>12, <4>0, <4>1, <4>2 DEF U64, ReadsLong
    <3>2. CASE c # ELF_CLASS_32
      <4>1. ReadsLong(u, e, 2, FlagBits(h.p_flags))
        BY <1>4, <1>7, <2>2, <3>2, ReadU32
      <4>2. Written(u, 4, 0, e, 4, h.p_offset) /\ Written(u, 4, 1, e, 4, h.p_offset)
        <5>1. FieldAt(F, n, 4, 4, h.p_offset)
          BY <1>7, <3>2
        <5>2. PICK k \in Nat : k = 4
          OBVIOUS
        <5>3. FieldAt(F, n, k, 4, h.p_offset)
          BY <5>1, <5>2
        <5>4. ASSUME NEW i \in 0..(4 - 1) PROVE Written(u, k, i, e, 4, h.p_offset)
          BY <1>4, <5>3, ReadUnit
        <5> QED BY <5>2, <5>4
      <4>3. /\ Unit(u, 2 * 4, 0) = Digit(h.p_offset, 0)
            /\ Unit(u, 2 * 4, 1) = Digit(h.p_offset, 1)
        BY <1>12, <4>2 DEF Written
      <4>4. PICK v \in Nat : v = h.p_offset /\ v \div (Base * Base) \in Long
        BY <1>5, <3>2, AddressFacts
      <4>5. PICK a \in Nat, b \in Nat : a = Digit(v, 0) /\ b = Digit(v, 1)
        <5>1. Digit(v, 0) \in Half /\ Digit(v, 1) \in Half
          BY <4>4, WideDigits
        <5> QED BY <5>1, BaseType DEF Half
      <4>6. U32(u, 2 * 4, e) = a + Base * b
        BY <1>12, <4>3, <4>4, <4>5 DEF U32
      <4>7. a + Base * b \in Nat
        BY BaseType, TimesNat
      <4>8. 2 * 2 = 4 /\ 2 * 4 = 4 + 4 /\ c = ELF_CLASS_64
        BY <3>2
      <4> QED BY <1>12, <4>1, <4>6, <4>7, <4>8 DEF U64, ReadsLong
    <3> QED BY <3>1, <3>2
  <2>4. PICK y \in Nat : (Base * Base) * x = 8 * y
    BY BaseEight
  <2> QED BY <1>5, <1>11, <2>3, <2>4, FlagsRead
<1>13. /\ 2 * 0 = 0 /\ 2 * 2 = 4 /\ 2 * 4 = 8 /\ 2 * 8 = 16 /\ 2 * 16 = 32
       /\ 2 * 10 = 20 /\ 2 * 20 = 40
  OBVIOUS
<1>14. SameHeader(g, h, e)
  BY <1>8, <1>9, <1>11, <1>12, <1>13 DEF ReadsWord, ReadsLong, SameHeader
<1> QED BY <1>2, <1>3, <1>4, <1>10, <1>14

(* Elf::parse reads back what the file was made of. *)
ParsedAs(r, p) ==
  /\ r.e_entry = p.entry
  /\ DOMAIN r.p_headers = DOMAIN p.headers
  /\ \A j \in DOMAIN p.headers : SameHeader(r.p_headers[j], p.headers[j], p.endian)

PhOff(f) == Word(f.units, f.class, f.endian, 28, 32)
PhNum(f) == U16(f.units, IF f.class = ELF_CLASS_32 THEN 44 ELSE 56)
SliceAt(f, i) == SubSeq(f.units, ((PhOff(f) + i * PhSize[f.class]) \div 2) + 1,
                                 (PhOff(f) + (i + 1) * PhSize[f.class]) \div 2)

LEMMA ParseShape ==
  ASSUME NEW f, Parse(f).ok
  PROVE  /\ Parse(f).e_entry = Word(f.units, f.class, f.endian, 24, 24)
         /\ Parse(f).p_headers
            = [i \in 1..PhNum(f) |-> ProgramParse(SliceAt(f, i - 1), f.class, f.endian)]
BY DEF Parse, Err, PhOff, PhNum, SliceAt

(* Elf::parse reads back the entry point and every program header of a file *)
(* in the ELF format, of either class and byte order, but for the flags of  *)
(* a big-endian file.                                                      *)
THEOREM ParseExact ==
  ASSUME NEW p, Storable(p), Parse(FileOf(p)).ok
  PROVE  ParsedAs(Parse(FileOf(p)), p)
<1>1. /\ p.class \in {ELF_CLASS_32, ELF_CLASS_64} /\ Len(p.headers) \in Nat
      /\ DOMAIN p.headers = 1..Len(p.headers)
  BY DEF Storable
<1>2. PICK f : f = FileOf(p) /\ f.units = Units(p) /\ f.class = p.class /\ f.endian = p.endian
  BY FileFacts DEF Units
<1>3. PhOff(f) = 2 * HSize(p.class) /\ PhNum(f) = Len(p.headers)
  BY <1>2, TopRead DEF PhOff, PhNum
<1>30. /\ Parse(f).e_entry = Word(f.units, f.class, f.endian, 24, 24)
       /\ Parse(f).p_headers
          = [i \in 1..PhNum(f) |-> ProgramParse(SliceAt(f, i - 1), f.class, f.endian)]
  BY <1>2, ParseShape
<1>4. ASSUME NEW j \in 1..Len(p.headers)
      PROVE  SameHeader(Parse(f).p_headers[j], p.headers[j], p.endian)
  <2>1. PICK i \in 0..(Len(p.headers) - 1) : i = j - 1 /\ i + 1 = j /\ i \in Nat /\ i + 1 \in Nat
    BY <1>1
  <2>2. SliceAt(f, i) = HeaderUnits(p, i)
    <3>1. /\ (2 * HSize(p.class) + i * PhSize[p.class]) \div 2 = Start(p, i)
          /\ (2 * HSize(p.class) + (i + 1) * PhSize[p.class]) \div 2 = Start(p, i + 1)
      BY <1>1, <2>1, Sizes DEF Start
    <3> QED BY <1>2, <1>3, <3>1 DEF SliceAt, HeaderUnits
  <2>3. Parse(f).p_headers[j] = ProgramParse(HeaderUnits(p, i), p.class, p.endian)
    <3>1. Parse(f).p_headers[j] = ProgramParse(SliceAt(f, j - 1), f.class, f.endian)
      BY <1>3, <1>30
    <3> QED BY <1>2, <2>1, <2>2, <3>1
  <2> QED BY <2>1, <2>3, ProgramRead
<1>5. Parse(f).e_entry = p.entry /\ DOMAIN Parse(f).p_headers = DOMAIN p.headers
  BY <1>1, <1>2, <1>3, <1>30, TopRead
<1> QED BY <1>1, <1>2, <1>4, <1>5 DEF ParsedAs

-----------------------------------------------------------------------------
(* The inductive invariant. *)
Alloc == [v_page : Nat, p_page : Nat, v_pages : Nat, flags : SUBSET {"exec", "write", "read"}]
Memory == [0..(PhysPages * PAGE_SIZE - 1) -> Nat]
CallOp == [call : {"open", "read", "write", "close", "uname"}, dir : {"from", "to"}, addr : Nat,
           at : Nat, done : Nat, buf : Seq(Nat), pc : {"copy", "scan", "end"}, str : Seq(Nat)]
LoadOp == [call |-> "load"]

(* The program headers of the file, and those the loop has passed. *)
Headers == Parse(file).p_headers
Passed == Len(Headers) - Len(prog)

Types ==
  /\ elf \in Programs /\ file = FileOf(elf)
  /\ next_page \in 0..PhysPages /\ page_allocs \in Seq(Alloc)
  /\ phys \in Memory /\ before \in Memory /\ calls \in 0..MaxCalls
  /\ op \in CallOp \cup {NoOp, LoadOp}
  /\ prog = <<>> \/ prog \in Seq({Headers[j] : j \in DOMAIN Headers})

(* Blocks are allocated one after the other; the page table has the pages   *)
(* of the entries.                                                         *)
BlockOK(alloc) == alloc.p_page + alloc.v_pages =< next_page
BlocksApart(x, y) == x.p_page + x.v_pages =< y.p_page \/ y.p_page + y.v_pages =< x.p_page
TableOK ==
  /\ \A v \in DOMAIN pt : v \in Nat /\ pt[v].p_page \in 0..(next_page - 1)
  /\ \A v \in Nat : v \in DOMAIN pt <=> \E i \in DOMAIN page_allocs : v \in VPages(page_allocs[i])
  /\ Apart => \A i \in DOMAIN page_allocs : \A v \in VPages(page_allocs[i]) :
                pt[v].p_page = page_allocs[i].p_page + (v - page_allocs[i].v_page)
BlocksOK ==
  /\ \A i \in DOMAIN page_allocs : BlockOK(page_allocs[i])
  /\ \A i, j \in DOMAIN page_allocs : i # j => BlocksApart(page_allocs[i], page_allocs[j])

(* The loop over the headers, and what it has loaded. *)
Loaded(h) ==
  \E q \in Nat :
    /\ q + DivCeil(h.p_memsz, PAGE_SIZE) =< next_page
    /\ \A v \in PagesOf(h) : /\ v \in DOMAIN pt
                             /\ pt[v] = [p_page |-> q + (v - Page(h.v_addr)), right |-> Right(h.p_flags)]
    /\ calls = 0 => \A i \in 0..(h.p_filesz - 1) :
                      phys[(q * PAGE_SIZE + Offset(h.v_addr)) + i] = ByteAt(h.p_offset + i)
LoadOK ==
  /\ page_allocs = <<>> => next_page = 0 /\ DOMAIN pt = {} /\ op = NoOp /\ prog = <<>>
  /\ op # LoadOp => prog = <<>>
  /\ op \in CallOp => calls >= 1
  /\ page_allocs # <<>> =>
       /\ Parse(file).ok
       /\ context.entry = elf.entry
       /\ page_allocs[1].v_pages = USER_STACK_PAGES
       /\ context.sp = (page_allocs[1].v_page + USER_STACK_PAGES) * PAGE_SIZE
       /\ Len(prog) =< Len(Headers)
       /\ \A i \in DOMAIN prog : prog[i] = Headers[Passed + i]
       /\ WellFormed => \A j \in 1..Passed : Headers[j].p_type = PT_LOAD => Loaded(Headers[j])

(* A copy in progress. *)
NotNul(a, m) == \A i \in 0..(BUF_SIZE - 1) : Mapped(a + i) /\ View(m, a + i) # NUL
Same(a, buf, n, m) == \A i \in 0..(n - 1) : Mapped(a + i) /\ View(m, a + i) = buf[i + 1]
Touched(a, n, b) == \E i \in 0..(n - 1) : b = Phys(a + i)
Copied(o, m, m0) ==
  /\ Same(o.addr, o.buf, o.done, m)
  /\ \A b \in DOMAIN m : m[b] # m0[b] => o.dir = "to" /\ Touched(o.addr, o.done, b)
CopyOK ==
  op \in CallOp =>
    /\ op.done =< Len(op.buf)
    /\ op.call = "open" => op.dir = "from" /\ Len(op.buf) = BUF_SIZE
    /\ op.pc = "scan" => op.call = "open"
    /\ op.pc = "copy" /\ op.done < Len(op.buf) => op.at = op.addr + op.done
    /\ Apart => /\ Copied(op, phys, before)
                /\ op.pc # "copy" => op.done = Len(op.buf) \/ ~Mapped(op.addr + op.done)
                /\ op.call = "open" /\ op.pc # "end" => op.str = <<>> \/ NotNul(op.addr, phys)
                /\ op.call = "open" /\ op.pc = "end" => StringArrives

UserInv == Types /\ TableOK /\ BlocksOK /\ LoadOK /\ CopyOK

-----------------------------------------------------------------------------
(* Pages and addresses. *)
LEMMA PageSize == PAGE_SIZE \in Nat /\ PAGE_SIZE >= 1
BY UserMemoryAssumption

LEMMA PhysType == PhysPages \in Nat
BY UserMemoryAssumption

LEMMA PageFacts ==
  ASSUME NEW a \in Nat
  PROVE  /\ Page(a) \in Nat /\ Offset(a) \in 0..(PAGE_SIZE - 1)
         /\ a = Page(a) * PAGE_SIZE + Offset(a)
BY PageSize, DivType DEF Page, Offset

LEMMA OffsetNat ==
  ASSUME NEW a \in Nat
  PROVE  Offset(a) \in Nat
<1>1. Offset(a) \in 0..(PAGE_SIZE - 1)
  BY PageFacts
<1> QED BY <1>1, PageSize

LEMMA PageAtLeast ==
  ASSUME NEW a \in Nat, NEW v \in Nat
  PROVE  v =< Page(a) <=> v * PAGE_SIZE =< a
<1>1. PICK q \in Nat, r \in Nat, n \in Nat :
        q = Page(a) /\ n = PAGE_SIZE /\ a = q * n + r /\ r < n
  <2>1. Offset(a) \in Nat /\ Offset(a) < PAGE_SIZE
    BY PageSize, PageFacts
  <2> QED BY <2>1, PageSize, PageFacts
<1>2. q * n \in Nat /\ v * n \in Nat
  BY TimesNat
<1>3. v =< q => v * n =< q * n
  BY TimesMono
<1>4. q + 1 =< v => (q + 1) * n =< v * n
  BY TimesMono
<1>5. (q + 1) * n = q * n + 1 * n /\ 1 * n = n
  BY TimesAdd
<1>6. v =< q <=> v * n =< a
  BY <1>1, <1>2, <1>3, <1>4, <1>5
<1> QED BY <1>1, <1>6

(* The addresses of the pages v..(v + n - 1). *)
LEMMA PagesAreAddresses ==
  ASSUME NEW a \in Nat, NEW v \in Nat, NEW n \in Nat
  PROVE  Page(a) \in v..(v + n - 1) <=> v * PAGE_SIZE =< a /\ a < (v + n) * PAGE_SIZE
<1>1. Page(a) \in Nat
  BY PageFacts
<1>2. v =< Page(a) <=> v * PAGE_SIZE =< a
  BY PageAtLeast
<1>3. v + n =< Page(a) <=> (v + n) * PAGE_SIZE =< a
  BY PageAtLeast
<1>4. (v + n) * PAGE_SIZE \in Nat
  BY PageSize, TimesNat
<1> QED BY <1>1, <1>2, <1>3, <1>4

(* The byte of page q + (Page(a) - v) at the offset of a. *)
LEMMA ByteOfPage ==
  ASSUME NEW a \in Nat, NEW v \in Nat, NEW q \in Nat, v =< Page(a)
  PROVE  /\ (q + (Page(a) - v)) * PAGE_SIZE + Offset(a) = q * PAGE_SIZE + (a - v * PAGE_SIZE)
         /\ a - v * PAGE_SIZE \in Nat
<1>1. PICK g \in Nat, r \in Nat, n \in Nat :
        g = Page(a) /\ r = Offset(a) /\ n = PAGE_SIZE /\ a = g * n + r
  <2>1. Offset(a) \in Nat
    BY PageSize, PageFacts
  <2> QED BY <2>1, PageSize, PageFacts
<1>2. PICK d \in Nat : d = g - v /\ g = d + v
  BY <1>1
<1>3. (q + d) * n = q * n + d * n /\ (d + v) * n = d * n + v * n
  BY TimesAdd
<1>4. q * n \in Nat /\ d * n \in Nat /\ v * n \in Nat
  BY TimesNat
<1>5. (q + d) * n + r = q * n + (a - v * n) /\ a - v * n \in Nat
  BY <1>1, <1>2, <1>3, <1>4
<1> QED BY <1>1, <1>2, <1>5

-----------------------------------------------------------------------------
(* The program's view and the entries of page_allocs. *)
LEMMA AllocFields ==
  ASSUME NEW x \in Alloc
  PROVE  x.v_page \in Nat /\ x.p_page \in Nat /\ x.v_pages \in Nat
BY DEF Alloc

LEMMA AllocType ==
  ASSUME Types, NEW i \in DOMAIN page_allocs
  PROVE  page_allocs[i] \in Alloc
BY DEF Types

(* Address a is in the pages of entry x, at byte PhysIn(x, a) of memory. *)
InAlloc(x, a) == x.v_page * PAGE_SIZE =< a /\ a < (x.v_page + x.v_pages) * PAGE_SIZE
PhysIn(x, a) == x.p_page * PAGE_SIZE + BlockOffset(x, a)

LEMMA InAllocPage ==
  ASSUME NEW x \in Alloc, NEW a \in Nat
  PROVE  Page(a) \in VPages(x) <=> InAlloc(x, a)
BY AllocFields, PagesAreAddresses DEF VPages, InAlloc

LEMMA PhysInFacts ==
  ASSUME NEW x \in Alloc, NEW a \in Nat, InAlloc(x, a)
  PROVE  /\ BlockOffset(x, a) \in Nat /\ BlockOffset(x, a) < x.v_pages * PAGE_SIZE
         /\ x.p_page * PAGE_SIZE \in Nat /\ x.v_pages * PAGE_SIZE \in Nat
         /\ (x.p_page + x.v_pages) * PAGE_SIZE = x.p_page * PAGE_SIZE + x.v_pages * PAGE_SIZE
         /\ PhysIn(x, a) \in Nat
         /\ x.p_page * PAGE_SIZE =< PhysIn(x, a)
         /\ PhysIn(x, a) < (x.p_page + x.v_pages) * PAGE_SIZE
<1>1. PICK v \in Nat, p \in Nat, n \in Nat, s \in Nat :
        v = x.v_page /\ p = x.p_page /\ n = x.v_pages /\ s = PAGE_SIZE
  BY AllocFields, PageSize
<1>2. (v + n) * s = v * s + n * s /\ (p + n) * s = p * s + n * s
  BY TimesAdd
<1>3. v * s \in Nat /\ n * s \in Nat /\ p * s \in Nat
  BY TimesNat
<1>4. v * s =< a /\ a < (v + n) * s
  BY <1>1 DEF InAlloc
<1>5. BlockOffset(x, a) = a - v * s /\ PhysIn(x, a) = p * s + (a - v * s)
  BY <1>1 DEF BlockOffset, PhysIn
<1>6. /\ a - v * s \in Nat /\ a - v * s < n * s /\ p * s + (a - v * s) \in Nat
      /\ p * s =< p * s + (a - v * s) /\ p * s + (a - v * s) < (p + n) * s
  BY <1>2, <1>3, <1>4
<1> QED BY <1>1, <1>2, <1>3, <1>5, <1>6

LEMMA Translate ==
  ASSUME Types, TableOK, Apart, NEW i \in DOMAIN page_allocs, NEW a \in Nat,
         InAlloc(page_allocs[i], a)
  PROVE  Mapped(a) /\ Phys(a) = PhysIn(page_allocs[i], a)
<1>1. PICK x \in Alloc : x = page_allocs[i]
  BY AllocType
<1>2. Page(a) \in VPages(x) /\ Page(a) \in Nat
  BY <1>1, InAllocPage, PageFacts
<1>3. Mapped(a)
  BY <1>1, <1>2 DEF TableOK, Mapped
<1>4. pt[Page(a)].p_page = x.p_page + (Page(a) - x.v_page)
  BY <1>1, <1>2 DEF TableOK
<1>5. x.v_page =< Page(a) /\ x.v_page \in Nat /\ x.p_page \in Nat
  BY <1>2, AllocFields DEF VPages
<1>6. Phys(a) = x.p_page * PAGE_SIZE + (a - x.v_page * PAGE_SIZE)
  BY <1>4, <1>5, ByteOfPage DEF Phys
<1> QED BY <1>1, <1>3, <1>6 DEF PhysIn, BlockOffset

LEMMA MappedInAlloc ==
  ASSUME Types, TableOK, NEW a \in Nat
  PROVE  Mapped(a) <=> \E i \in DOMAIN page_allocs : InAlloc(page_allocs[i], a)
<1>1. Page(a) \in Nat
  BY PageFacts
<1>2. Mapped(a) <=> \E i \in DOMAIN page_allocs : Page(a) \in VPages(page_allocs[i])
  BY <1>1 DEF Mapped, TableOK
<1>3. \A i \in DOMAIN page_allocs : Page(a) \in VPages(page_allocs[i]) <=> InAlloc(page_allocs[i], a)
  BY AllocType, InAllocPage
<1> QED BY <1>2, <1>3

LEMMA PhysInMemory ==
  ASSUME Types, TableOK, BlocksOK, Apart, NEW a \in Nat, Mapped(a)
  PROVE  Phys(a) \in 0..(PhysPages * PAGE_SIZE - 1)
<1>1. PICK i \in DOMAIN page_allocs : InAlloc(page_allocs[i], a)
  BY MappedInAlloc
<1>2. PICK x \in Alloc : x = page_allocs[i]
  BY AllocType
<1>3. Phys(a) = PhysIn(x, a)
  BY <1>1, <1>2, Translate
<1>4. x.p_page + x.v_pages =< PhysPages /\ PhysPages \in Nat /\ x.p_page + x.v_pages \in Nat
  <2>1. x.p_page + x.v_pages =< next_page /\ next_page \in 0..PhysPages
    BY <1>2 DEF BlocksOK, BlockOK, Types
  <2>2. PhysPages \in Nat /\ x.p_page \in Nat /\ x.v_pages \in Nat
    BY AllocFields, UserMemoryAssumption
  <2> QED BY <2>1, <2>2
<1>5. (x.p_page + x.v_pages) * PAGE_SIZE =< PhysPages * PAGE_SIZE
  BY <1>4, PageSize, TimesMono
<1>6. PhysIn(x, a) \in Nat /\ PhysIn(x, a) < (x.p_page + x.v_pages) * PAGE_SIZE
  BY <1>1, <1>2, PhysInFacts
<1>7. PhysPages * PAGE_SIZE \in Nat /\ (x.p_page + x.v_pages) * PAGE_SIZE \in Nat
  BY <1>4, PageSize, TimesNat
<1> QED BY <1>3, <1>5, <1>6, <1>7

(* Two addresses of the program never lead to the same byte. *)
LEMMA PhysInjective ==
  ASSUME Types, TableOK, BlocksOK, Apart, NEW a \in Nat, Mapped(a), NEW b \in Nat, Mapped(b),
         Phys(a) = Phys(b)
  PROVE  a = b
<1>1. PICK i \in DOMAIN page_allocs : InAlloc(page_allocs[i], a)
  BY MappedInAlloc
<1>2. PICK j \in DOMAIN page_allocs : InAlloc(page_allocs[j], b)
  BY MappedInAlloc
<1>3. PICK x \in Alloc, y \in Alloc : x = page_allocs[i] /\ y = page_allocs[j]
  BY AllocType
<1>4. PhysIn(x, a) = PhysIn(y, b)
  BY <1>1, <1>2, <1>3, Translate
<1>5. /\ PhysIn(x, a) \in Nat /\ x.p_page * PAGE_SIZE =< PhysIn(x, a)
      /\ PhysIn(x, a) < (x.p_page + x.v_pages) * PAGE_SIZE
  BY <1>1, <1>3, PhysInFacts
<1>6. /\ PhysIn(y, b) \in Nat /\ y.p_page * PAGE_SIZE =< PhysIn(y, b)
      /\ PhysIn(y, b) < (y.p_page + y.v_pages) * PAGE_SIZE
  BY <1>2, <1>3, PhysInFacts
<1>7. CASE i = j
  <2>1. x = y
    BY <1>3, <1>7
  <2>2. x.p_page * PAGE_SIZE \in Nat /\ x.v_page * PAGE_SIZE \in Nat
    BY AllocFields, PageSize, TimesNat
  <2> QED BY <1>4, <2>1, <2>2 DEF PhysIn, BlockOffset
<1>8. CASE i # j
  <2>1. PICK k \in Nat, l \in Nat, m \in Nat, n \in Nat, s \in Nat :
          /\ k = x.p_page /\ l = x.p_page + x.v_pages /\ m = y.p_page /\ n = y.p_page + y.v_pages
          /\ s = PAGE_SIZE
    BY AllocFields, PageSize
  <2>2. l =< m \/ n =< k
    BY <1>3, <1>8, <2>1 DEF BlocksOK, BlocksApart
  <2>3. (l =< m => l * s =< m * s) /\ (n =< k => n * s =< k * s)
    BY TimesMono
  <2>4. k * s \in Nat /\ l * s \in Nat /\ m * s \in Nat /\ n * s \in Nat
    BY TimesNat
  <2> QED BY <1>4, <1>5, <1>6, <2>1, <2>2, <2>3, <2>4
<1> QED BY <1>7, <1>8

-----------------------------------------------------------------------------
(* Copies. *)

(* Sets of naturals have a least element. *)
LEMMA LeastNat ==
  ASSUME NEW T, T \subseteq Nat, T # {}
  PROVE  \E x \in T : \A y \in T : x =< y
<1> DEFINE R == {ss \in Nat \X Nat : ss[1] < ss[2]}
<1>1. IsWellFoundedOn(R, Nat)
  BY NatLessThanWellFounded, Zenon DEF OpToRel
<1> HIDE DEF R
<1>2. PICK x \in T : \A y \in T : ~(<<y, x>> \in R)
  BY <1>1, WFMin, Zenon
<1>3. ASSUME NEW y \in T PROVE x =< y
  <2>1. y \in Nat /\ x \in Nat
    OBVIOUS
  <2>2. y < x => <<y, x>> \in R
    BY <2>1 DEF R
  <2> QED BY <2>1, <2>2, <1>2
<1> QED BY <1>3

LEMMA FirstIn ==
  ASSUME Types, NEW a, Containing(a) # {}
  PROVE  First(Containing(a)) \in Containing(a)
<1>1. Containing(a) \subseteq Nat
  BY DEF Types, Containing
<1> QED BY <1>1, LeastNat DEF First

LEMMA InCallOp ==
  ASSUME Types
  PROVE  InCall <=> op \in CallOp
BY DEF Types, InCall, NoOp, LoadOp, CallOp

LEMMA CallFields ==
  ASSUME NEW o \in CallOp
  PROVE  /\ o.addr \in Nat /\ o.at \in Nat /\ o.done \in Nat
         /\ o.buf \in Seq(Nat) /\ o.str \in Seq(Nat)
         /\ o.dir \in {"from", "to"} /\ o.pc \in {"copy", "scan", "end"}
         /\ o.call \in {"open", "read", "write", "close", "uname"}
BY DEF CallOp

(* One turn of the copy loop: n bytes of the buffer and the memory from     *)
(* byte base on.                                                           *)
Turn(x, base, n) ==
  /\ n >= 1 /\ n =< Len(op.buf) - op.done
  /\ base + n =< PhysPages * PAGE_SIZE
  /\ n < Len(op.buf) - op.done => NextAddr(x) = op.at + n
  /\ NextAddr(x) \in Nat
  /\ Apart => \A t \in 0..(n - 1) : Mapped(op.at + t) /\ Phys(op.at + t) = base + t

LEMMA TurnFacts ==
  ASSUME Types, TableOK, BlocksOK, op \in CallOp, op.done < Len(op.buf),
         NEW i \in DOMAIN page_allocs, NEW x \in Alloc, x = page_allocs[i],
         Page(op.at) \in VPages(x),
         NEW n, n = LET room == x.v_pages * PAGE_SIZE - BlockOffset(x, op.at)
                        left == Len(op.buf) - op.done
                    IN  IF room < left THEN room ELSE left
  PROVE  /\ n \in Nat /\ PhysIn(x, op.at) \in Nat
         /\ Turn(x, PhysIn(x, op.at), n)
<1>1. PICK a \in Nat, l \in Nat : a = op.at /\ l = Len(op.buf) - op.done /\ l >= 1
  BY CallFields
<1>2. InAlloc(x, a)
  BY <1>1, InAllocPage
<1>3. PICK v \in Nat, p \in Nat, k \in Nat, s \in Nat :
        v = x.v_page /\ p = x.p_page /\ k = x.v_pages /\ s = PAGE_SIZE
  BY AllocFields, PageSize
<1>4. /\ v * s \in Nat /\ k * s \in Nat /\ p * s \in Nat
      /\ (v + k) * s = v * s + k * s /\ (p + k) * s = p * s + k * s
  BY TimesNat, TimesAdd
<1>5. v * s =< a /\ a < (v + k) * s
  BY <1>2, <1>3 DEF InAlloc
<1>6. PICK o \in Nat, room \in Nat :
        /\ o = BlockOffset(x, a) /\ o = a - v * s /\ room = k * s - o /\ room >= 1
        /\ n = IF room < l THEN room ELSE l
  <2>1. PICK o \in Nat, room \in Nat : o = a - v * s /\ room = k * s - o /\ room >= 1
    <3>1. a - v * s \in Nat /\ k * s - (a - v * s) \in Nat /\ k * s - (a - v * s) >= 1
      BY ONLY <1>4, <1>5, a \in Nat
    <3> QED BY ONLY <3>1
  <2>2. o = BlockOffset(x, a)
    BY <1>3, <2>1 DEF BlockOffset
  <2>3. n = IF room < l THEN room ELSE l
    BY <1>1, <1>3, <2>1, <2>2
  <2> QED BY ONLY <2>1, <2>2, <2>3
<1>7. n \in Nat /\ n >= 1 /\ n =< l /\ n =< room /\ (n < l => n = room)
  BY <1>1, <1>6
<1>8. PhysIn(x, a) = p * s + o
  BY <1>3, <1>6 DEF PhysIn
<1>9. p * s + o + n =< PhysPages * PAGE_SIZE
  <2>1. p + k =< PhysPages /\ PhysPages \in Nat
    <3>1. p + k =< next_page /\ next_page \in 0..PhysPages
      BY <1>3 DEF BlocksOK, BlockOK, Types
    <3>2. next_page \in Nat /\ next_page =< PhysPages
      BY ONLY <3>1, PhysType
    <3> QED BY ONLY <3>1, <3>2, PhysType, p \in Nat, k \in Nat
  <2>2. (p + k) * s =< PhysPages * s /\ PhysPages * s \in Nat
    BY <2>1, TimesMono, TimesNat
  <2>3. p * s + o + n =< (p + k) * s
    BY ONLY <1>4, <1>6, <1>7, p \in Nat, k \in Nat, s \in Nat, o \in Nat, room \in Nat
  <2>4. p * s + o + n \in Nat /\ (p + k) * s \in Nat
    BY <1>4, <1>7
  <2> QED BY <1>3, <2>2, <2>3, <2>4
<1>10. NextAddr(x) = (v + k) * s /\ (v + k) * s \in Nat /\ (n < l => (v + k) * s = a + n)
  <2>1. NextAddr(x) = (v + k) * s
    BY <1>3 DEF NextAddr
  <2>2. n = room => (v + k) * s = a + n
    BY ONLY <1>4, <1>6, a \in Nat, v \in Nat, k \in Nat, s \in Nat
  <2> QED BY <1>4, <1>7, <2>1, <2>2
<1>11. ASSUME Apart, NEW t \in 0..(n - 1)
       PROVE  Mapped(a + t) /\ Phys(a + t) = (p * s + o) + t
  <2>1. a + t \in Nat /\ v * s =< a + t /\ a + t < (v + k) * s
    BY ONLY <1>4, <1>5, <1>6, <1>7, a \in Nat, t \in 0..(n - 1), n \in Nat, room \in Nat, o \in Nat
  <2>2. InAlloc(x, a + t)
    BY <1>3, <2>1 DEF InAlloc
  <2>3. Mapped(a + t) /\ Phys(a + t) = PhysIn(x, a + t)
    BY <1>11, <2>1, <2>2, Translate
  <2>4. PhysIn(x, a + t) = p * s + ((a + t) - v * s)
    BY <1>3 DEF PhysIn, BlockOffset
  <2>5. p * s + ((a + t) - v * s) = (p * s + o) + t
    BY <1>4, <1>6, <2>1
  <2> QED BY <2>3, <2>4, <2>5
<1>12. PhysIn(x, a) \in Nat
  <2>1. p * s + o \in Nat
    BY ONLY <1>4, o \in Nat
  <2> QED BY ONLY <1>8, <2>1
<1>13. Turn(x, PhysIn(x, a), n)
  BY <1>1, <1>7, <1>8, <1>9, <1>10, <1>11 DEF Turn
<1> QED BY <1>1, <1>7, <1>12, <1>13

NewBuf(base, n) ==
  IF op.dir = "to" THEN op.buf
  ELSE [i \in DOMAIN op.buf |-> IF i \in (op.done + 1)..(op.done + n)
                                THEN phys[base + i - op.done - 1] ELSE op.buf[i]]
NewPhys(base, n) ==
  IF op.dir = "from" THEN phys
  ELSE [b \in DOMAIN phys |-> IF b \in base..(base + n - 1)
                              THEN op.buf[op.done + b - base + 1] ELSE phys[b]]
TurnStep(x, base, n) ==
  /\ phys' = NewPhys(base, n)
  /\ op' = [op EXCEPT !.buf = NewBuf(base, n), !.done = op.done + n,
                      !.at = IF op.done + n = Len(op.buf) THEN op.at ELSE NextAddr(x)]

LEMMA CopyBlockShape ==
  ASSUME Types, TableOK, BlocksOK, copy_block
  PROVE  /\ op \in CallOp /\ op.pc = "copy" /\ op.done < Len(op.buf)
         /\ \E x \in Alloc, base \in Nat, n \in Nat : Turn(x, base, n) /\ TurnStep(x, base, n)
<1>1. op \in CallOp /\ op.pc = "copy" /\ op.done < Len(op.buf) /\ Containing(op.at) # {}
  BY InCallOp DEF copy_block
<1>2. PICK i \in DOMAIN page_allocs : i = First(Containing(op.at)) /\ i \in Containing(op.at)
  <2>1. First(Containing(op.at)) \in Containing(op.at)
    BY <1>1, FirstIn
  <2> QED BY <2>1 DEF Containing
<1>3. PICK x \in Alloc : x = page_allocs[i]
  BY AllocType
<1>4. Page(op.at) \in VPages(x)
  BY <1>2, <1>3 DEF Containing
<1>5. PICK n : n = LET room == x.v_pages * PAGE_SIZE - BlockOffset(x, op.at)
                       left == Len(op.buf) - op.done
                   IN  IF room < left THEN room ELSE left
  OBVIOUS
<1>6. n \in Nat /\ PhysIn(x, op.at) \in Nat /\ Turn(x, PhysIn(x, op.at), n)
  BY <1>1, <1>3, <1>4, <1>5, TurnFacts
<1>7. TurnStep(x, PhysIn(x, op.at), n)
  BY <1>2, <1>3, <1>5 DEF copy_block, TurnStep, NewBuf, NewPhys, PhysIn
<1> QED BY <1>1, <1>6, <1>7

(* What is in memory and in the buffer after a turn. *)
LEMMA TurnTypes ==
  ASSUME Types, op \in CallOp, NEW x \in Alloc, NEW base \in Nat, NEW n \in Nat,
         Turn(x, base, n), TurnStep(x, base, n)
  PROVE  /\ phys' \in Memory /\ op' \in CallOp
         /\ op'.call = op.call /\ op'.dir = op.dir /\ op'.addr = op.addr /\ op'.pc = op.pc
         /\ op'.str = op.str /\ op'.done = op.done + n /\ Len(op'.buf) = Len(op.buf)
         /\ op'.buf = NewBuf(base, n)
         /\ op'.at = IF op.done + n = Len(op.buf) THEN op.at ELSE NextAddr(x)
<1>1. PICK l \in Nat, d \in Nat, M \in Nat : /\ l = Len(op.buf) /\ d = op.done /\ d + n =< l
                                              /\ M = PhysPages * PAGE_SIZE /\ base + n =< M
  <2>1. Len(op.buf) \in Nat /\ op.done \in Nat
    BY CallFields
  <2>2. PhysPages * PAGE_SIZE \in Nat
    BY PageSize, TimesNat, PhysType
  <2>3. n =< Len(op.buf) - op.done /\ base + n =< PhysPages * PAGE_SIZE
    BY DEF Turn
  <2>4. op.done + n =< Len(op.buf)
    BY <2>1, <2>3
  <2> QED BY ONLY <2>1, <2>2, <2>3, <2>4
<1>2. /\ phys \in [0..(M - 1) -> Nat] /\ op.buf \in Seq(Nat) /\ DOMAIN op.buf = 1..l
      /\ Memory = [0..(M - 1) -> Nat]
  BY <1>1, CallFields DEF Types, Memory
<1>3. NewPhys(base, n) \in [0..(M - 1) -> Nat]
  <2>1. ASSUME NEW b \in 0..(M - 1), b \in base..(base + n - 1)
        PROVE  op.buf[op.done + b - base + 1] \in Nat
    <3>1. op.done = d /\ d + n =< l
      BY <1>1
    <3>2. d + b - base + 1 \in 1..l
      BY ONLY <2>1, <3>1, base \in Nat, n \in Nat, l \in Nat, d \in Nat
    <3> QED BY <1>2, <3>1, <3>2
  <2> QED BY <1>2, <2>1 DEF NewPhys
<1>4. NewBuf(base, n) \in [1..l -> Nat]
  <2>1. ASSUME NEW i \in 1..l, i \in (op.done + 1)..(op.done + n)
        PROVE  phys[base + i - op.done - 1] \in Nat
    <3>1. op.done = d /\ base + n =< M
      BY <1>1
    <3>2. i \in (d + 1)..(d + n)
      BY ONLY <2>1, <3>1
    <3>3. base + i - d - 1 \in 0..(M - 1)
      BY ONLY <3>1, <3>2, base \in Nat, n \in Nat, M \in Nat, d \in Nat
    <3> QED BY <1>2, <3>1, <3>3
  <2>2. op.buf \in [1..l -> Nat]
    BY <1>2
  <2> QED BY <1>2, <2>1, <2>2 DEF NewBuf
<1>5. NewBuf(base, n) \in Seq(Nat) /\ Len(NewBuf(base, n)) = l
  BY <1>4
<1>6. op.done + n \in Nat /\ op.at \in Nat /\ NextAddr(x) \in Nat
  <2>1. op.done \in Nat /\ op.at \in Nat
    BY CallFields
  <2>2. NextAddr(x) \in Nat
    BY DEF Turn
  <2> QED BY ONLY <2>1, <2>2, n \in Nat
<1>7. op' = [op EXCEPT !.buf = NewBuf(base, n), !.done = op.done + n,
                       !.at = IF op.done + n = Len(op.buf) THEN op.at ELSE NextAddr(x)]
  BY DEF TurnStep
<1>8. op' \in CallOp
  BY <1>5, <1>6, <1>7 DEF CallOp
<1>9. /\ op'.call = op.call /\ op'.dir = op.dir /\ op'.addr = op.addr /\ op'.pc = op.pc
      /\ op'.str = op.str /\ op'.done = op.done + n /\ op'.buf = NewBuf(base, n)
      /\ op'.at = IF op.done + n = Len(op.buf) THEN op.at ELSE NextAddr(x)
  BY <1>7 DEF CallOp
<1>10. phys' \in Memory
  BY <1>2, <1>3 DEF TurnStep
<1> QED BY <1>1, <1>5, <1>8, <1>9, <1>10

LEMMA TurnCopied ==
  ASSUME Types, TableOK, BlocksOK, Apart, op \in CallOp, Copied(op, phys, before),
         op.at = op.addr + op.done, NEW x \in Alloc, NEW base \in Nat, NEW n \in Nat,
         Turn(x, base, n), TurnStep(x, base, n)
  PROVE  Copied(op', phys', before)
<1>1. PICK a \in Nat, d \in Nat, l \in Nat, M \in Nat :
        /\ a = op.addr /\ d = op.done /\ l = Len(op.buf) /\ d + n =< l /\ n >= 1
        /\ M = PhysPages * PAGE_SIZE /\ base + n =< M
  <2>1. Len(op.buf) \in Nat /\ op.done \in Nat /\ op.addr \in Nat
    BY CallFields
  <2>2. PhysPages * PAGE_SIZE \in Nat
    BY PageSize, TimesNat, PhysType
  <2>3. n >= 1 /\ n =< Len(op.buf) - op.done /\ base + n =< PhysPages * PAGE_SIZE
    BY DEF Turn
  <2>4. op.done + n =< Len(op.buf)
    BY <2>1, <2>3
  <2> QED BY ONLY <2>1, <2>2, <2>3, <2>4
<1>2. /\ op'.addr = a /\ op'.done = d + n /\ op'.dir = op.dir /\ op'.buf = NewBuf(base, n)
      /\ op.dir \in {"from", "to"}
  BY <1>1, TurnTypes, CallFields
<1>3. /\ phys \in [0..(M - 1) -> Nat] /\ op.buf \in Seq(Nat) /\ DOMAIN op.buf = 1..l
  <2>1. phys \in [0..(M - 1) -> Nat]
    BY <1>1 DEF Types, Memory
  <2>2. op.buf \in Seq(Nat)
    BY CallFields
  <2>3. DOMAIN op.buf = 1..l
    BY ONLY <1>1, <2>2
  <2> QED BY <2>1, <2>2, <2>3
<1>4. ASSUME NEW t \in 0..(n - 1) PROVE Mapped(a + (d + t)) /\ Phys(a + (d + t)) = base + t
  <2>1. Mapped(op.at + t) /\ Phys(op.at + t) = base + t
    BY DEF Turn
  <2>2. op.at = a + d
    BY <1>1
  <2>3. (a + d) + t = a + (d + t)
    BY ONLY a \in Nat, d \in Nat, n \in Nat, t \in 0..(n - 1)
  <2> QED BY <2>1, <2>2, <2>3
<1>5. ASSUME NEW i \in 0..(d - 1)
      PROVE  /\ Mapped(a + i) /\ View(phys, a + i) = op.buf[i + 1]
             /\ Phys(a + i) \in 0..(M - 1) /\ Phys(a + i) \notin base..(base + n - 1)
  <2>1. Mapped(a + i) /\ View(phys, a + i) = op.buf[i + 1]
    BY <1>1 DEF Copied, Same
  <2>2. Phys(a + i) \in 0..(M - 1)
    BY <1>1, <2>1, PhysInMemory
  <2>3. ASSUME Phys(a + i) \in base..(base + n - 1) PROVE FALSE
    <3>1. PICK t \in 0..(n - 1) : Phys(a + i) = base + t
      <4>1. Phys(a + i) - base \in 0..(n - 1) /\ Phys(a + i) = base + (Phys(a + i) - base)
        BY <2>3
      <4> QED BY <4>1
    <3>2. a + i \in Nat /\ a + (d + t) \in Nat /\ a + i # a + (d + t)
      OBVIOUS
    <3> QED BY <1>4, <2>1, <3>1, <3>2, PhysInjective
  <2> QED BY <2>1, <2>2, <2>3
<1>6. ASSUME NEW i \in 0..((d + n) - 1), ~(i \in 0..(d - 1))
      PROVE  \E t \in 0..(n - 1) : i = d + t
  <2>1. i - d \in 0..(n - 1) /\ i = d + (i - d)
    BY <1>6
  <2> QED BY <2>1
<1>7. CASE op.dir = "from"
  <2>1. phys' = phys
    BY <1>7 DEF TurnStep, NewPhys
  <2>2. ASSUME NEW i \in 0..((d + n) - 1)
        PROVE  Mapped(a + i) /\ View(phys, a + i) = NewBuf(base, n)[i + 1]
    <3>0. i + 1 \in 1..l
      BY <1>1
    <3>1. NewBuf(base, n)[i + 1] = IF i + 1 \in (d + 1)..(d + n)
                                   THEN phys[base + (i + 1) - d - 1] ELSE op.buf[i + 1]
      BY <1>1, <1>3, <1>7, <3>0 DEF NewBuf
    <3>2. CASE i \in 0..(d - 1)
      <4>1. i + 1 \notin (d + 1)..(d + n)
        BY <3>2
      <4> QED BY <1>5, <3>1, <3>2, <4>1
    <3>3. CASE ~(i \in 0..(d - 1))
      <4>1. PICK t \in 0..(n - 1) : i = d + t
        BY <1>6, <3>3
      <4>2. i + 1 \in (d + 1)..(d + n) /\ base + (i + 1) - d - 1 = base + t
        BY <4>1
      <4> QED BY <1>4, <3>1, <4>1, <4>2 DEF View
    <3> QED BY <3>2, <3>3
  <2>3. \A b \in DOMAIN phys : phys[b] = before[b]
    BY <1>7 DEF Copied
  <2> QED BY <1>2, <2>1, <2>2, <2>3 DEF Copied, Same
<1>8. CASE op.dir = "to"
  <2>1. NewBuf(base, n) = op.buf
    BY <1>8 DEF NewBuf
  <2>2. /\ DOMAIN phys' = 0..(M - 1)
        /\ \A b \in 0..(M - 1) : phys'[b] = IF b \in base..(base + n - 1)
                                            THEN op.buf[d + b - base + 1] ELSE phys[b]
    BY <1>1, <1>3, <1>8 DEF TurnStep, NewPhys
  <2>3. ASSUME NEW i \in 0..((d + n) - 1)
        PROVE  Mapped(a + i) /\ View(phys', a + i) = op.buf[i + 1]
    <3>1. CASE i \in 0..(d - 1)
      <4>1. phys'[Phys(a + i)] = phys[Phys(a + i)]
        BY <1>5, <2>2, <3>1
      <4> QED BY <1>5, <3>1, <4>1 DEF View
    <3>2. CASE ~(i \in 0..(d - 1))
      <4>1. PICK t \in 0..(n - 1) : i = d + t
        BY <1>6, <3>2
      <4>2. base + t \in 0..(M - 1) /\ base + t \in base..(base + n - 1)
            /\ d + (base + t) - base + 1 = i + 1
        BY <1>1, <4>1
      <4>3. phys'[base + t] = op.buf[i + 1]
        BY <2>2, <4>2
      <4> QED BY <1>4, <4>1, <4>3 DEF View
    <3> QED BY <3>1, <3>2
  <2>4. ASSUME NEW b \in 0..(M - 1), phys'[b] # before[b]
        PROVE  Touched(a, d + n, b)
    <3>1. CASE b \in base..(base + n - 1)
      <4>1. PICK t \in 0..(n - 1) : b = base + t
        <5>1. b - base \in 0..(n - 1) /\ b = base + (b - base)
          BY <3>1
        <5> QED BY <5>1
      <4>2. d + t \in 0..((d + n) - 1) /\ b = Phys(a + (d + t))
        BY <1>4, <4>1
      <4> QED BY <4>2 DEF Touched
    <3>2. CASE b \notin base..(base + n - 1)
      <4>1. phys[b] # before[b]
        BY <2>2, <2>4, <3>2
      <4>2. Touched(a, d, b)
        BY <1>1, <1>3, <4>1 DEF Copied
      <4>3. \A i \in 0..(d - 1) : i \in 0..((d + n) - 1)
        OBVIOUS
      <4> QED BY <4>2, <4>3 DEF Touched
    <3> QED BY <3>1, <3>2
  <2> QED BY <1>2, <1>8, <2>1, <2>2, <2>3, <2>4 DEF Copied, Same
<1> QED BY <1>2, <1>7, <1>8
-----------------------------------------------------------------------------
(* Steps that load nothing. *)

LEMMA SameTables ==
  ASSUME UNCHANGED <<page_allocs, pt>>
  PROVE  /\ Apart' <=> Apart
         /\ \A a : (Mapped(a)' <=> Mapped(a)) /\ Phys(a)' = Phys(a)
BY DEF Apart, Mapped, Phys

LEMMA LoadedKept ==
  ASSUME NEW h, Loaded(h), UNCHANGED <<pt, next_page>>, calls' = 0 => calls = 0 /\ phys' = phys
  PROVE  Loaded(h)'
BY DEF Loaded

LEMMA SameImage ==
  ASSUME Types, TableOK, BlocksOK, LoadOK, page_allocs # <<>>, prog = <<>>, UNCHANGED loadVars,
         op' \in CallOp \cup {NoOp}, phys' \in Memory, before' \in Memory,
         calls' \in 0..MaxCalls, calls' = 0 => calls = 0 /\ phys' = phys,
         op' \in CallOp => calls' >= 1
  PROVE  Types' /\ TableOK' /\ BlocksOK' /\ LoadOK'
<1>1. UNCHANGED <<elf, file, prog, page_allocs, pt, next_page, context>>
  BY DEF loadVars
<1>2. Apart' <=> Apart
  BY <1>1, SameTables
<1>3. Headers' = Headers /\ Passed' = Passed /\ (WellFormed' <=> WellFormed)
  BY <1>1 DEF Headers, Passed, WellFormed, Segments
<1>4. Types'
  BY <1>1, <1>3 DEF Types
<1>5. TableOK'
  BY <1>1, <1>2 DEF TableOK
<1>6. BlocksOK'
  BY <1>1 DEF BlocksOK, BlockOK
<1>7. \A h : Loaded(h) => Loaded(h)'
  BY <1>1, LoadedKept
<1>8. LoadOK'
  BY <1>1, <1>3, <1>7 DEF LoadOK
<1> QED BY <1>4, <1>5, <1>6, <1>8

(* What a copy has done, with the tables as they were. *)
LEMMA CopiedNext ==
  ASSUME UNCHANGED <<page_allocs, pt>>, Copied(op', phys', before')
  PROVE  Copied(op, phys, before)'
BY DEF Copied, Same, Touched, View, Mapped, Phys

LEMMA CopyBlockStep ==
  ASSUME UserInv, copy_block
  PROVE  UserInv'
<1>1. Types /\ TableOK /\ BlocksOK /\ LoadOK /\ CopyOK
  BY DEF UserInv
<1>2. op \in CallOp /\ op.pc = "copy" /\ op.done < Len(op.buf)
  BY <1>1, CopyBlockShape
<1>3. PICK x \in Alloc, base \in Nat, n \in Nat : Turn(x, base, n) /\ TurnStep(x, base, n)
  BY <1>1, CopyBlockShape
<1>4. UNCHANGED <<loadVars, calls, before>> /\ UNCHANGED <<page_allocs, pt>>
  BY DEF copy_block, loadVars
<1>5. /\ phys' \in Memory /\ op' \in CallOp
      /\ op'.call = op.call /\ op'.dir = op.dir /\ op'.addr = op.addr /\ op'.pc = op.pc
      /\ op'.str = op.str /\ op'.done = op.done + n /\ Len(op'.buf) = Len(op.buf)
      /\ op'.at = IF op.done + n = Len(op.buf) THEN op.at ELSE NextAddr(x)
  BY <1>1, <1>2, <1>3, TurnTypes
<1>6. calls >= 1 /\ prog = <<>> /\ page_allocs # <<>>
  BY <1>1, <1>2 DEF LoadOK, NoOp, LoadOp, CallOp
<1>7. Types' /\ TableOK' /\ BlocksOK' /\ LoadOK'
  BY <1>1, <1>4, <1>5, <1>6, SameImage DEF Types
<1>8. op.at = op.addr + op.done /\ op.done \in Nat /\ op.addr \in Nat /\ Len(op.buf) \in Nat
  BY <1>1, <1>2, CallFields DEF CopyOK
<1>9. /\ n >= 1 /\ n =< Len(op.buf) - op.done
      /\ n < Len(op.buf) - op.done => NextAddr(x) = op.at + n
  BY <1>3 DEF Turn
<1>10. op'.done =< Len(op'.buf)
  BY <1>5, <1>8, <1>9
<1>11. op'.done < Len(op'.buf) => op'.at = op'.addr + op'.done
  BY <1>5, <1>8, <1>9
<1>12. ASSUME Apart
       PROVE  /\ Copied(op, phys, before)'
              /\ op.call = "open" => op.str = <<>> \/ NotNul(op.addr, phys)'
  <2>1. Copied(op, phys, before)
    BY <1>1, <1>2, <1>12 DEF CopyOK
  <2>2. Copied(op', phys', before')
    BY <1>1, <1>2, <1>3, <1>4, <1>8, <1>12, <2>1, TurnCopied
  <2>3. ASSUME op.call = "open" PROVE op.str = <<>> \/ NotNul(op.addr, phys)'
    <3>1. op.dir = "from" /\ (op.str = <<>> \/ NotNul(op.addr, phys))
      BY <1>1, <1>2, <1>12, <2>3 DEF CopyOK
    <3>2. phys' = phys
      BY <1>3, <3>1 DEF TurnStep, NewPhys
    <3> QED BY <1>4, <1>5, <3>1, <3>2 DEF NotNul, View, Mapped, Phys
  <2> QED BY <1>4, <2>2, <2>3, CopiedNext
<1>13. CopyOK'
  <2>1. /\ op'.call = "open" => op'.dir = "from" /\ Len(op'.buf) = BUF_SIZE
        /\ op'.pc = "copy"
    BY <1>1, <1>2, <1>5 DEF CopyOK
  <2>2. Apart' <=> Apart
    BY <1>4, SameTables
  <2> QED BY <1>5, <1>10, <1>11, <1>12, <2>1, <2>2 DEF CopyOK
<1> QED BY <1>7, <1>13 DEF UserInv

(* The mapped prefix is determined by what is mapped. *)
PrefixIs(a, n, k) == (\A i \in 0..(k - 1) : Mapped(a + i)) /\ (k < n => ~Mapped(a + k))

LEMMA PrefixUnique ==
  ASSUME NEW a \in Nat, NEW n \in Nat, NEW k \in 0..n, PrefixIs(a, n, k)
  PROVE  MappedPrefix(a, n) = k
<1>1. ASSUME NEW j \in 0..n, PrefixIs(a, n, j) PROVE j = k
  <2>1. ~(j < k)
    <3>1. SUFFICES ASSUME j < k PROVE FALSE
      OBVIOUS
    <3>2. j \in 0..(k - 1) /\ j < n
      BY <3>1
    <3> QED BY <1>1, <3>2 DEF PrefixIs
  <2>2. ~(k < j)
    <3>1. SUFFICES ASSUME k < j PROVE FALSE
      OBVIOUS
    <3>2. k \in 0..(j - 1) /\ k < n
      BY <3>1
    <3> QED BY <1>1, <3>2 DEF PrefixIs
  <2> QED BY <2>1, <2>2
<1>2. MappedPrefix(a, n) = CHOOSE j \in 0..n : PrefixIs(a, n, j)
  BY DEF MappedPrefix, PrefixIs
<1> QED BY <1>1, <1>2

LEMMA CopyEndStep ==
  ASSUME UserInv, copy_end
  PROVE  UserInv'
<1>1. Types /\ TableOK /\ BlocksOK /\ LoadOK /\ CopyOK
  BY DEF UserInv
<1>2. /\ op \in CallOp /\ op.pc = "copy" /\ (op.done = Len(op.buf) \/ Containing(op.at) = {})
      /\ op' = [op EXCEPT !.pc = IF op.call = "open" THEN "scan" ELSE "end"]
      /\ UNCHANGED <<loadVars, calls, before, phys>> /\ UNCHANGED <<page_allocs, pt>>
  BY <1>1, InCallOp DEF copy_end, loadVars
<1>3. calls >= 1 /\ prog = <<>> /\ page_allocs # <<>>
  BY <1>1, <1>2 DEF LoadOK, NoOp, LoadOp, CallOp
<1>4. /\ op' \in CallOp /\ op'.call = op.call /\ op'.dir = op.dir /\ op'.addr = op.addr
      /\ op'.at = op.at /\ op'.done = op.done /\ op'.buf = op.buf /\ op'.str = op.str
      /\ op'.pc = IF op.call = "open" THEN "scan" ELSE "end"
  BY <1>2 DEF CallOp
<1>5. Types' /\ TableOK' /\ BlocksOK' /\ LoadOK'
  BY <1>1, <1>2, <1>3, <1>4, SameImage DEF Types
<1>6. Apart' <=> Apart
  BY <1>2, SameTables
<1>7. ASSUME Apart
      PROVE  /\ Copied(op, phys, before)'
             /\ op.call = "open" => op.str = <<>> \/ NotNul(op.addr, phys)'
  <2>1. Copied(op, phys, before)
    BY <1>1, <1>2, <1>7 DEF CopyOK
  <2>2. Copied(op', phys', before')
    BY <1>2, <1>4, <2>1 DEF Copied
  <2>3. op.call = "open" => op.str = <<>> \/ NotNul(op.addr, phys)
    BY <1>1, <1>2, <1>7 DEF CopyOK
  <2> QED BY <1>2, <1>4, <2>2, <2>3, CopiedNext DEF NotNul, View, Mapped, Phys
<1>8. op.done = Len(op.buf) \/ ~Mapped(op.addr + op.done)
  <2>1. CASE op.done # Len(op.buf)
    <3>1. op.at = op.addr + op.done /\ op.at \in Nat
      BY <1>1, <1>2, <2>1, CallFields DEF CopyOK
    <3>2. \A i \in DOMAIN page_allocs : ~(Page(op.at) \in VPages(page_allocs[i]))
      BY <1>2, <2>1 DEF Containing
    <3>3. Page(op.at) \in Nat
      BY <3>1, PageFacts
    <3> QED BY <1>1, <3>1, <3>2, <3>3 DEF TableOK, Mapped
  <2> QED BY <2>1
<1>9. CopyOK'
  <2>1. /\ op'.done =< Len(op'.buf)
        /\ op'.call = "open" => op'.dir = "from" /\ Len(op'.buf) = BUF_SIZE
    BY <1>1, <1>2, <1>4 DEF CopyOK
  <2>2. op'.pc # "copy" /\ (op'.pc = "scan" <=> op'.call = "open")
    BY <1>4
  <2>3. op'.done = Len(op'.buf) \/ ~Mapped(op.addr + op.done)'
    BY <1>2, <1>4, <1>8 DEF Mapped
  <2> QED BY <1>4, <1>6, <1>7, <2>1, <2>2, <2>3 DEF CopyOK
<1> QED BY <1>5, <1>9 DEF UserInv

LEMMA SyscallEndStep ==
  ASSUME UserInv, syscall_end
  PROVE  UserInv'
<1>1. Types /\ TableOK /\ BlocksOK /\ LoadOK /\ CopyOK
  BY DEF UserInv
<1>2. /\ op \in CallOp /\ op' = NoOp /\ UNCHANGED <<loadVars, calls, before, phys>>
  BY <1>1, InCallOp DEF syscall_end
<1>3. prog = <<>> /\ page_allocs # <<>> /\ op' \notin CallOp
  BY <1>1, <1>2 DEF LoadOK, NoOp, LoadOp, CallOp
<1>4. Types' /\ TableOK' /\ BlocksOK' /\ LoadOK'
  BY <1>1, <1>2, <1>3, SameImage DEF Types
<1> QED BY <1>3, <1>4 DEF UserInv, CopyOK

LEMMA CallStep ==
  ASSUME UserInv, NEW call \in {"open", "read", "write", "close", "uname"}, NEW dir \in {"from", "to"},
         NEW a \in Nat, NEW buf \in Seq(Nat), Call(Copy(call, dir, a, buf)),
         call = "open" => dir = "from" /\ Len(buf) = BUF_SIZE
  PROVE  UserInv'
<1>1. Types /\ TableOK /\ BlocksOK /\ LoadOK /\ CopyOK
  BY DEF UserInv
<1>2. /\ op.call = "none" /\ page_allocs # <<>> /\ calls < MaxCalls
      /\ op' = Copy(call, dir, a, buf) /\ calls' = calls + 1 /\ before' = phys
      /\ UNCHANGED <<loadVars, phys>> /\ UNCHANGED <<page_allocs, pt>>
  BY DEF Call, loadVars
<1>3. /\ op' \in CallOp /\ op'.call = call /\ op'.dir = dir /\ op'.addr = a
      /\ op'.at = a /\ op'.done = 0 /\ op'.buf = buf /\ op'.str = <<>> /\ op'.pc = "copy"
  BY <1>2 DEF CallOp, Copy
<1>4. prog = <<>>
  BY <1>1, <1>2 DEF LoadOK, LoadOp
<1>5. calls' \in 0..MaxCalls /\ calls' >= 1
  BY <1>1, <1>2, UserMemoryAssumption DEF Types
<1>6. Types' /\ TableOK' /\ BlocksOK' /\ LoadOK'
  BY <1>1, <1>2, <1>3, <1>4, <1>5, SameImage DEF Types
<1>7. Copied(op, phys, before)'
  <2>1. Copied(op', phys', before')
    BY <1>2, <1>3 DEF Copied, Same
  <2> QED BY <1>2, <2>1, CopiedNext
<1>8. Len(buf) \in Nat /\ a + 0 = a
  OBVIOUS
<1>9. CopyOK'
  BY <1>3, <1>7, <1>8 DEF CopyOK
<1> QED BY <1>6, <1>9 DEF UserInv

LEMMA ZerosType ==
  ASSUME NEW n \in Nat
  PROVE  Zeros(n) \in Seq(Nat) /\ Len(Zeros(n)) = n
<1>1. Zeros(n) \in [1..n -> Nat]
  BY DEF Zeros
<1> QED BY <1>1

LEMMA UtsType == Uts \in Seq(Nat)
<1>1. UtsLen \in Nat /\ UtsLen >= 1 /\ 5 * UtsLen \in Nat
  BY UserMemoryAssumption
<1>2. ASSUME NEW i \in 1..(5 * UtsLen) PROVE Names + ((i - 1) \div UtsLen) \in Nat
  <2>1. i - 1 \in Nat
    BY <1>1
  <2>2. (i - 1) \div UtsLen \in Nat
    BY <1>1, <2>1, DivType
  <2> QED BY <2>2 DEF Names
<1>3. Uts \in [1..(5 * UtsLen) -> Nat]
  BY <1>2 DEF Uts
<1> QED BY <1>1, <1>3

LEMMA SyscallSteps ==
  ASSUME UserInv,
         syscall_open \/ syscall_read \/ syscall_write \/ syscall_close \/ syscall_uname
  PROVE  UserInv'
<1>1. BUF_SIZE \in Nat /\ Buffers \subseteq Nat /\ Counts \subseteq Nat
  BY UserMemoryAssumption
<1>2. CASE syscall_open
  BY <1>1, <1>2, CallStep, ZerosType DEF syscall_open
<1>3. CASE syscall_read
  <2>0. PICK a \in Buffers, n \in Counts : \E got \in 0..n :
          Call(Copy("read", "to", a, [i \in 1..n |-> IF i =< got THEN Data ELSE 0]))
    BY <1>3 DEF syscall_read
  <2>1. PICK got \in 0..n : Call(Copy("read", "to", a, [i \in 1..n |-> IF i =< got THEN Data ELSE 0]))
    BY <2>0
  <2>2. PICK buf : buf = [i \in 1..n |-> IF i =< got THEN Data ELSE 0]
    OBVIOUS
  <2>3. buf \in [1..n -> Nat] /\ n \in Nat /\ a \in Nat
    BY <1>1, <2>2 DEF Data
  <2>4. buf \in Seq(Nat)
    BY <2>3
  <2> QED BY <2>1, <2>2, <2>3, <2>4, CallStep
<1>4. CASE syscall_write
  BY <1>1, <1>4, CallStep, ZerosType DEF syscall_write
<1>5. CASE syscall_close
  BY <1>1, <1>5, CallStep, ZerosType DEF syscall_close
<1>6. CASE syscall_uname
  BY <1>1, <1>6, CallStep, UtsType DEF syscall_uname
<1> QED BY <1>2, <1>3, <1>4, <1>5, <1>6

(* copy_user_string. *)
NoNul(s) == \A i \in DOMAIN s : s[i] # NUL
NulAt(s, k) == s[k] = NUL /\ \A j \in 1..(k - 1) : s[j] # NUL

LEMMA PrefixSeq ==
  ASSUME NEW s \in Seq(Nat), NEW d \in Nat, d =< Len(s)
  PROVE  \E t \in Seq(Nat) : /\ t = SubSeq(s, 1, d) /\ Len(t) = d /\ DOMAIN t = 1..d
                             /\ \A i \in 1..d : t[i] = s[i]
<1>1. SubSeq(s, 1, d) \in Seq(Nat) /\ Len(SubSeq(s, 1, d)) = d
  OBVIOUS
<1>2. \A i \in 1..d : SubSeq(s, 1, d)[i] = s[i]
  OBVIOUS
<1>3. DOMAIN SubSeq(s, 1, d) = 1..d
  BY <1>1
<1> QED BY <1>1, <1>2, <1>3

LEMMA UpToNulFacts ==
  ASSUME NEW s \in Seq(Nat)
  PROVE  \/ NoNul(s) /\ UpToNul(s) = s
         \/ \E k \in DOMAIN s : /\ NulAt(s, k) /\ UpToNul(s) = SubSeq(s, 1, k - 1)
                                /\ Len(UpToNul(s)) = k - 1
                                /\ UpToNul(s) \in Seq(Nat) /\ UpToNul(s) # s
                                /\ \A j \in 1..(k - 1) : UpToNul(s)[j] = s[j]
<1>1. CASE NoNul(s)
  BY <1>1 DEF NoNul, UpToNul
<1>2. CASE ~NoNul(s)
  <2> DEFINE T == {i \in DOMAIN s : s[i] = NUL}
  <2>1. T # {} /\ T \subseteq Nat
    BY <1>2 DEF NoNul
  <2>2. PICK x \in T : \A y \in T : x =< y
    <3> HIDE DEF T
    <3> QED BY <2>1, LeastNat
  <2>3. x \in DOMAIN s /\ NulAt(s, x)
    <3>1. x \in DOMAIN s /\ s[x] = NUL /\ x \in 1..Len(s) /\ Len(s) \in Nat
      BY <2>2
    <3>2. ASSUME NEW j \in 1..(x - 1), s[j] = NUL PROVE FALSE
      <4>1. j \in DOMAIN s /\ j < x
        BY <3>1
      <4>2. x =< j
        BY <2>2, <3>2, <4>1
      <4> QED BY <3>1, <4>1, <4>2
    <3> QED BY <3>1, <3>2 DEF NulAt
  <2>4. FirstNul(s) = CHOOSE i \in DOMAIN s : NulAt(s, i)
    BY DEF FirstNul, NulAt
  <2>5. PICK k \in DOMAIN s : k = FirstNul(s) /\ NulAt(s, k)
    BY <2>3, <2>4
  <2>6. UpToNul(s) = SubSeq(s, 1, k - 1)
    BY <2>3, <2>5 DEF UpToNul, NulAt
  <2>7. k \in 1..Len(s) /\ Len(s) \in Nat
    BY <2>5
  <2>8. /\ Len(SubSeq(s, 1, k - 1)) = k - 1 /\ SubSeq(s, 1, k - 1) \in Seq(Nat)
        /\ \A j \in 1..(k - 1) : SubSeq(s, 1, k - 1)[j] = s[j]
    <3>1. k - 1 \in Nat /\ k - 1 =< Len(s)
      BY ONLY <2>7
    <3>2. PICK d \in Nat : d = k - 1 /\ d =< Len(s)
      BY ONLY <3>1
    <3>3. PICK t \in Seq(Nat) : /\ t = SubSeq(s, 1, d) /\ Len(t) = d
                                /\ \A i \in 1..d : t[i] = s[i]
      BY ONLY <3>2, PrefixSeq, s \in Seq(Nat), d \in Nat
    <3> QED BY ONLY <3>2, <3>3
  <2>9. SubSeq(s, 1, k - 1) # s
    BY <2>7, <2>8
  <2> HIDE DEF T
  <2> QED BY ONLY <2>5, <2>6, <2>8, <2>9
<1> QED BY <1>1, <1>2

(* A scan that goes on has seen a full buffer without a NUL, so that the    *)
(* next one goes on too.                                                   *)
LEMMA ScanGoesOn ==
  ASSUME UserInv, Apart, op \in CallOp, op.call = "open", op.pc = "scan"
  PROVE  /\ ~ScanEnds => NotNul(op.addr, phys)
         /\ NotNul(op.addr, phys) => ~ScanEnds
<1>1. PICK a \in Nat, d \in Nat : /\ a = op.addr /\ d = op.done /\ d =< BUF_SIZE
                                  /\ Len(op.buf) = BUF_SIZE /\ BUF_SIZE \in Nat
  BY CallFields DEF UserInv, CopyOK
<1>2. /\ \A i \in 0..(d - 1) : Mapped(a + i) /\ View(phys, a + i) = op.buf[i + 1]
      /\ d = BUF_SIZE \/ ~Mapped(a + d)
  BY <1>1 DEF UserInv, CopyOK, Copied, Same
<1>3. PICK s \in Seq(Nat) : /\ s = Scanned /\ Len(s) = d /\ DOMAIN s = 1..d
                            /\ \A i \in 1..d : s[i] = op.buf[i]
  BY <1>1, CallFields, PrefixSeq DEF Scanned
<1>4. UpToNul(s) = s <=> NoNul(s)
  <2>1. ASSUME NEW k \in DOMAIN s, NulAt(s, k) PROVE ~NoNul(s)
    BY <2>1 DEF NulAt, NoNul
  <2> QED BY <2>1, UpToNulFacts
<1>5. ScanEnds <=> ~NoNul(s) \/ d < BUF_SIZE
  BY <1>1, <1>3, <1>4 DEF ScanEnds
<1>6. ASSUME NoNul(s), ~(d < BUF_SIZE) PROVE NotNul(a, phys)
  <2>1. d = BUF_SIZE
    BY <1>1, <1>6
  <2>2. ASSUME NEW i \in 0..(BUF_SIZE - 1) PROVE Mapped(a + i) /\ View(phys, a + i) # NUL
    <3>1. i \in 0..(d - 1) /\ i + 1 \in 1..d
      BY <1>1, <2>1
    <3>2. s[i + 1] # NUL
      BY <1>3, <1>6, <3>1 DEF NoNul
    <3> QED BY <1>2, <1>3, <3>1, <3>2
  <2> QED BY <2>2 DEF NotNul
<1>7. ASSUME NotNul(a, phys) PROVE NoNul(s) /\ ~(d < BUF_SIZE)
  <2>1. d = BUF_SIZE
    <3>1. d # BUF_SIZE => d \in 0..(BUF_SIZE - 1)
      BY <1>1
    <3> QED BY <1>2, <1>7, <3>1 DEF NotNul
  <2>2. ASSUME NEW i \in 1..d PROVE s[i] # NUL
    <3>1. PICK j \in 0..(d - 1) : j + 1 = i
      <4>1. i - 1 \in 0..(d - 1) /\ (i - 1) + 1 = i
        BY <1>1
      <4> QED BY <4>1
    <3>2. View(phys, a + j) # NUL
      BY <1>7, <2>1 DEF NotNul
    <3> QED BY <1>2, <1>3, <3>1, <3>2
  <2> QED BY <1>1, <1>3, <2>1, <2>2 DEF NoNul
<1> QED BY <1>1, <1>5, <1>6, <1>7

(* The string that arrived. *)
Arrived(a, str, m) ==
  LET n == MappedPrefix(a, BUF_SIZE)
  IN  /\ Len(str) =< n
      /\ \A i \in DOMAIN str : str[i] = View(m, a + i - 1) /\ str[i] # NUL
      /\ Len(str) < n => View(m, a + Len(str)) = NUL

LEMMA ArrivedNext ==
  ASSUME UNCHANGED <<page_allocs, pt>>, NEW a, NEW str, Arrived(a, str, phys),
         op'.addr = a, op'.str = str, phys' = phys
  PROVE  StringArrives'
<1>1. MappedPrefix(op.addr, BUF_SIZE)' = MappedPrefix(a, BUF_SIZE)
  BY DEF MappedPrefix, Mapped
<1>2. \A b : View(phys, b)' = View(phys, b)
  BY DEF View, Phys
<1>3. /\ Len(op.str)' = Len(str) /\ (op.addr)' = a /\ (op.str)' = str
  OBVIOUS
<1> QED BY <1>1, <1>2, <1>3 DEF StringArrives, Arrived, View, Phys

LEMMA ScanArrives ==
  ASSUME UserInv, Apart, op \in CallOp, op.call = "open", op.pc = "scan", ScanEnds
  PROVE  op.str = <<>> /\ Arrived(op.addr, UpToNul(Scanned), phys)
<1>1. PICK a \in Nat, d \in Nat : /\ a = op.addr /\ d = op.done /\ d =< BUF_SIZE
                                  /\ Len(op.buf) = BUF_SIZE /\ BUF_SIZE \in Nat
  BY CallFields DEF UserInv, CopyOK
<1>2. /\ \A i \in 0..(d - 1) : Mapped(a + i) /\ View(phys, a + i) = op.buf[i + 1]
      /\ d = BUF_SIZE \/ ~Mapped(a + d)
  BY <1>1 DEF UserInv, CopyOK, Copied, Same
<1>3. PICK s \in Seq(Nat) : /\ s = Scanned /\ Len(s) = d /\ DOMAIN s = 1..d
                            /\ \A i \in 1..d : s[i] = op.buf[i]
  BY <1>1, CallFields, PrefixSeq DEF Scanned
<1>4. op.str = <<>>
  BY ScanGoesOn DEF UserInv, CopyOK
<1>5. MappedPrefix(a, BUF_SIZE) = d
  <2>1. PrefixIs(a, BUF_SIZE, d)
    BY <1>1, <1>2 DEF PrefixIs
  <2>2. d \in 0..BUF_SIZE
    BY <1>1
  <2> QED BY <1>1, <2>1, <2>2, PrefixUnique
<1>6. ASSUME NEW i \in 1..d PROVE s[i] = View(phys, a + i - 1)
  <2>1. PICK j \in 0..(d - 1) : j + 1 = i /\ a + j = a + i - 1
    <3>1. i - 1 \in 0..(d - 1) /\ (i - 1) + 1 = i /\ a + (i - 1) = a + i - 1
      OBVIOUS
    <3> QED BY <3>1
  <2>2. View(phys, a + j) = op.buf[j + 1]
    BY <1>2
  <2> QED BY <1>3, <2>1, <2>2
<1>7. Arrived(a, UpToNul(s), phys)
  <2>1. CASE NoNul(s) /\ UpToNul(s) = s
    <3>1. \A i \in DOMAIN s : s[i] = View(phys, a + i - 1) /\ s[i] # NUL
      BY <1>3, <1>6, <2>1 DEF NoNul
    <3> QED BY <1>3, <1>5, <2>1, <3>1 DEF Arrived
  <2>2. ASSUME NEW k \in DOMAIN s, NulAt(s, k), NEW t \in Seq(Nat), t = UpToNul(s),
               Len(t) = k - 1, \A j \in 1..(k - 1) : t[j] = s[j]
        PROVE  Arrived(a, t, phys)
    <3>1. k \in 1..d /\ DOMAIN t = 1..(k - 1)
      BY <1>3, <2>2
    <3>2. ASSUME NEW i \in 1..(k - 1) PROVE t[i] = View(phys, a + i - 1) /\ t[i] # NUL
      <4>1. i \in 1..d
        BY <3>1
      <4> QED BY <1>6, <2>2, <4>1 DEF NulAt
    <3>3. View(phys, a + (k - 1)) = NUL
      <4>1. a + (k - 1) = a + k - 1
        BY <3>1
      <4> QED BY <1>6, <2>2, <3>1, <4>1 DEF NulAt
    <3>4. k - 1 =< d
      BY <3>1
    <3> QED BY <1>5, <2>2, <3>1, <3>2, <3>3, <3>4 DEF Arrived
  <2> QED BY <2>1, <2>2, UpToNulFacts
<1> QED BY <1>1, <1>3, <1>4, <1>7

LEMMA ScanStep ==
  ASSUME UserInv, scan_string
  PROVE  UserInv'
<1>1. Types /\ TableOK /\ BlocksOK /\ LoadOK /\ CopyOK
  BY DEF UserInv
<1>2. /\ op \in CallOp /\ op.call = "open" /\ op.pc = "scan"
      /\ UNCHANGED <<loadVars, calls, before, phys>> /\ UNCHANGED <<page_allocs, pt>>
  BY <1>1, InCallOp DEF scan_string, loadVars, InCall
<1>3. calls >= 1 /\ prog = <<>> /\ page_allocs # <<>>
  BY <1>1, <1>2 DEF LoadOK, NoOp, LoadOp, CallOp
<1>4. Apart' <=> Apart
  BY <1>2, SameTables
<1>5. /\ op.dir = "from" /\ Len(op.buf) = BUF_SIZE /\ op.done =< Len(op.buf) /\ BUF_SIZE \in Nat
      /\ op.str \in Seq(Nat) /\ op.addr \in Nat /\ op.done \in Nat
  BY <1>1, <1>2, CallFields DEF CopyOK
<1>6. UpToNul(Scanned) \in Seq(Nat)
  <2>1. Scanned \in Seq(Nat)
    BY <1>2, <1>5, CallFields, PrefixSeq DEF Scanned
  <2> QED BY <2>1, UpToNulFacts
<1>7. PICK str \in Seq(Nat) : str = op.str \o UpToNul(Scanned)
  <2>1. PICK u \in Seq(Nat), w \in Seq(Nat) : u = op.str /\ w = UpToNul(Scanned)
    BY <1>5, <1>6
  <2>2. u \o w \in Seq(Nat)
    OBVIOUS
  <2> QED BY <2>1, <2>2
<1>8. CASE ScanEnds
  <2>1. op' = [op EXCEPT !.pc = "end", !.str = str]
    BY <1>7, <1>8 DEF scan_string
  <2>2. /\ op' \in CallOp /\ op'.call = op.call /\ op'.dir = op.dir /\ op'.addr = op.addr
        /\ op'.done = op.done /\ op'.buf = op.buf /\ op'.str = str /\ op'.pc = "end"
    BY <1>2, <2>1 DEF CallOp
  <2>3. Types' /\ TableOK' /\ BlocksOK' /\ LoadOK'
    BY <1>1, <1>2, <1>3, <2>2, SameImage DEF Types
  <2>4. ASSUME Apart
        PROVE  /\ Copied(op, phys, before)' /\ StringArrives'
               /\ op.done = Len(op.buf) \/ ~Mapped(op.addr + op.done)'
    <3>1. Copied(op, phys, before) /\ (op.done = Len(op.buf) \/ ~Mapped(op.addr + op.done))
      BY <1>1, <1>2, <2>4 DEF CopyOK
    <3>2. Copied(op', phys', before')
      BY <1>2, <2>2, <3>1 DEF Copied
    <3>3. op.str = <<>> /\ Arrived(op.addr, UpToNul(Scanned), phys)
      BY <1>2, <1>8, <2>4, ScanArrives
    <3>4. str = UpToNul(Scanned)
      BY <1>6, <1>7, <3>3
    <3>5. StringArrives'
      BY <1>2, <2>2, <3>3, <3>4, ArrivedNext
    <3> QED BY <1>2, <2>2, <3>1, <3>2, <3>5, CopiedNext DEF Mapped
  <2>5. CopyOK'
    BY <1>2, <1>4, <1>5, <2>2, <2>4 DEF CopyOK
  <2> QED BY <2>3, <2>5 DEF UserInv
<1>9. CASE ~ScanEnds
  <2>1. op' = [op EXCEPT !.pc = "copy", !.str = str, !.done = 0, !.at = op.addr, !.buf = Zeros(BUF_SIZE)]
    BY <1>7, <1>9 DEF scan_string
  <2>2. Zeros(BUF_SIZE) \in Seq(Nat) /\ Len(Zeros(BUF_SIZE)) = BUF_SIZE
    BY <1>5, ZerosType
  <2>3. /\ op' \in CallOp /\ op'.call = op.call /\ op'.dir = op.dir /\ op'.addr = op.addr
        /\ op'.at = op.addr /\ op'.done = 0 /\ op'.buf = Zeros(BUF_SIZE) /\ op'.str = str
        /\ op'.pc = "copy"
    BY <1>2, <1>5, <2>1, <2>2 DEF CallOp
  <2>4. Types' /\ TableOK' /\ BlocksOK' /\ LoadOK'
    BY <1>1, <1>2, <1>3, <2>3, SameImage DEF Types
  <2>5. ASSUME Apart
        PROVE  Copied(op, phys, before)' /\ NotNul(op.addr, phys)'
    <3>1. Copied(op, phys, before)
      BY <1>1, <1>2, <2>5 DEF CopyOK
    <3>2. \A b \in DOMAIN phys : phys[b] = before[b]
      BY <1>5, <3>1 DEF Copied
    <3>3. Copied(op', phys', before')
      BY <1>2, <2>3, <3>2 DEF Copied, Same
    <3>4. NotNul(op.addr, phys)
      BY <1>2, <1>9, <2>5, ScanGoesOn
    <3> QED BY <1>2, <2>3, <3>3, <3>4, CopiedNext DEF NotNul, Mapped, View, Phys
  <2>6. op'.addr + 0 = op'.at /\ 0 =< Len(op'.buf)
    BY <1>5, <2>2, <2>3
  <2>7. CopyOK'
    BY <1>2, <1>4, <1>5, <2>2, <2>3, <2>5, <2>6 DEF CopyOK
  <2> QED BY <2>4, <2>7 DEF UserInv
<1> QED BY <1>8, <1>9

-----------------------------------------------------------------------------
(* The loop over the headers. *)
HeaderOK(g) ==
  /\ g.p_offset \in Nat /\ g.v_addr \in Nat /\ g.p_filesz \in Nat /\ g.p_memsz \in Nat
  /\ g.p_flags \subseteq {"exec", "write", "read"}
HeadersAre(N) ==
  /\ N = Len(Headers) /\ DOMAIN Headers = 1..N /\ DOMAIN elf.headers = 1..N
  /\ Headers \in Seq({Headers[j] : j \in DOMAIN Headers})
  /\ \A j \in 1..N : SameHeader(Headers[j], elf.headers[j], elf.endian) /\ HeaderOK(Headers[j])

LEMMA AddressNat ==
  ASSUME NEW c \in {ELF_CLASS_32, ELF_CLASS_64}
  PROVE  Address(c) \subseteq Nat
BY BaseType DEF Address, Long

LEMMA FunctionIsSeq ==
  ASSUME NEW N \in Nat, NEW f, f = [i \in 1..N |-> f[i]]
  PROVE  f \in Seq({f[j] : j \in DOMAIN f}) /\ Len(f) = N /\ DOMAIN f = 1..N
<1>1. DOMAIN f = 1..N
  OBVIOUS
<1>2. f \in [1..N -> {f[j] : j \in DOMAIN f}]
  BY <1>1
<1> QED BY <1>1, <1>2

LEMMA HeadersExist ==
  ASSUME Types, Parse(file).ok
  PROVE  \E N \in Nat : HeadersAre(N)
<1>1. Storable(elf) /\ file = FileOf(elf)
  BY UserMemoryAssumption DEF Types
<1>2. ParsedAs(Parse(file), elf)
  BY <1>1, ParseExact
<1>3. PICK N \in Nat, c \in {ELF_CLASS_32, ELF_CLASS_64} :
        /\ N = Len(elf.headers) /\ c = elf.class /\ DOMAIN elf.headers = 1..N
        /\ elf.headers \in Seq(ProgramHeader(c))
  BY <1>1 DEF Storable
<1>4. DOMAIN Headers = 1..N
  BY <1>2, <1>3 DEF ParsedAs, Headers
<1>5. Headers = [i \in 1..PhNum(file) |-> ProgramParse(SliceAt(file, i - 1), file.class, file.endian)]
  BY ParseShape DEF Headers
<1>6. Headers = [i \in 1..N |-> Headers[i]]
  BY <1>4, <1>5
<1>7. Headers \in Seq({Headers[j] : j \in DOMAIN Headers}) /\ Len(Headers) = N
  BY <1>6, FunctionIsSeq
<1>8. ASSUME NEW j \in 1..N
      PROVE  SameHeader(Headers[j], elf.headers[j], elf.endian) /\ HeaderOK(Headers[j])
  <2>1. SameHeader(Headers[j], elf.headers[j], elf.endian)
    BY <1>2, <1>3 DEF ParsedAs, Headers
  <2>2. elf.headers[j] \in ProgramHeader(c)
    BY <1>3
  <2>3. /\ elf.headers[j].p_offset \in Nat /\ elf.headers[j].v_addr \in Nat
        /\ elf.headers[j].p_filesz \in Nat /\ elf.headers[j].p_memsz \in Nat
    BY <2>2, AddressNat DEF ProgramHeader
  <2> QED BY <2>1, <2>3 DEF SameHeader, HeaderOK
<1> QED BY <1>3, <1>4, <1>7, <1>8 DEF HeadersAre

(* In a well-formed program the segments fit, and they share no page. *)
LEMMA WellFormedHeaders ==
  ASSUME NEW N \in Nat, HeadersAre(N), WellFormed,
         NEW j \in 1..N, Headers[j].p_type = PT_LOAD
  PROVE  /\ Fits(Headers[j])
         /\ \A k \in 1..N : k # j /\ Headers[k].p_type = PT_LOAD =>
              PagesOf(Headers[k]) \cap PagesOf(Headers[j]) = {}
<1>1. ASSUME NEW k \in 1..N, Headers[k].p_type = PT_LOAD
      PROVE  /\ k \in Segments /\ PagesOf(Headers[k]) = PagesOf(elf.headers[k])
             /\ Fits(elf.headers[k]) => Fits(Headers[k])
  <2>1. SameHeader(Headers[k], elf.headers[k], elf.endian) /\ k \in DOMAIN elf.headers
    BY DEF HeadersAre
  <2>2. k \in Segments
    BY <1>1, <2>1 DEF SameHeader, Segments
  <2> QED BY <2>1, <2>2 DEF SameHeader, PagesOf, Fits
<1> QED BY <1>1 DEF WellFormed

LEMMA DivCeilType ==
  ASSUME NEW n \in Nat
  PROVE  DivCeil(n, PAGE_SIZE) \in Nat
<1>1. n + PAGE_SIZE - 1 \in Nat
  BY PageSize
<1> QED BY <1>1, PageSize, DivType DEF DivCeil

LEMMA CeilPowFacts ==
  ASSUME NEW n \in Nat, \E p \in BlockSizes : p >= n
  PROVE  CeilPow(n) \in Nat /\ CeilPow(n) >= n
<1> DEFINE T == {p \in BlockSizes : p >= n}
<1>1. T # {} /\ T \subseteq Nat /\ BlockSizes \subseteq Nat
  BY UserMemoryAssumption
<1>2. PICK x \in T : \A y \in T : x =< y
  <2> HIDE DEF T
  <2> QED BY <1>1, LeastNat
<1>3. x \in BlockSizes /\ x >= n /\ \A q \in BlockSizes : q >= n => q >= x
  BY <1>1, <1>2
<1>4. CeilPow(n) \in BlockSizes /\ CeilPow(n) >= n
  BY <1>3 DEF CeilPow
<1> QED BY <1>1, <1>4

LEMMA ByteAtType ==
  ASSUME NEW o
  PROVE  ByteAt(o) \in Nat
BY UserMemoryAssumption DEF ByteAt, Beyond

(* A block more, with its pages in the table. *)
Extended(y, right) ==
  /\ DOMAIN pt' = DOMAIN pt \cup VPages(y)
  /\ \A w \in VPages(y) : pt'[w] = [p_page |-> y.p_page + (w - y.v_page), right |-> right]
  /\ \A w \in DOMAIN pt : w \notin VPages(y) => pt'[w] = pt[w]

LEMMA AddBlock ==
  ASSUME Types, TableOK, BlocksOK, NEW y \in Alloc, NEW c \in Nat, NEW right,
         y.p_page = next_page, y.v_pages =< c, next_page' = next_page + c,
         page_allocs' = Append(page_allocs, y), Extended(y, right)
  PROVE  TableOK' /\ BlocksOK'
<1>1. PICK v \in Nat, p \in Nat, k \in Nat :
        /\ v = y.v_page /\ p = y.p_page /\ k = y.v_pages /\ k =< c /\ p = next_page
        /\ VPages(y) = v..(v + k - 1)
  BY AllocFields DEF VPages
<1>2. PICK l \in Nat : /\ l = Len(page_allocs) /\ DOMAIN page_allocs = 1..l
                       /\ DOMAIN page_allocs' = 1..(l + 1) /\ page_allocs'[l + 1] = y
                       /\ \A i \in 1..l : page_allocs'[i] = page_allocs[i]
  BY DEF Types
<1>3. ASSUME NEW i \in 1..(l + 1), i # l + 1 PROVE i \in 1..l
  BY <1>3
<1>4. ASSUME NEW w \in DOMAIN pt' PROVE w \in Nat /\ pt'[w].p_page \in 0..(next_page' - 1)
  <2>1. CASE w \in VPages(y)
    <3>0. pt'[w] = [p_page |-> y.p_page + (w - y.v_page), right |-> right]
      BY <2>1 DEF Extended
    <3>1. w \in v..(v + k - 1) /\ pt'[w].p_page = p + (w - v)
      <4>1. pt'[w].p_page = y.p_page + (w - y.v_page)
        BY ONLY <3>0
      <4>2. y.p_page = p /\ y.v_page = v /\ VPages(y) = v..(v + k - 1)
        BY <1>1
      <4>3. w \in v..(v + k - 1)
        BY ONLY <2>1, <4>2
      <4> QED BY ONLY <4>1, <4>2, <4>3
    <3>2. next_page' = p + c
      BY <1>1
    <3>3. w \in Nat /\ p + (w - v) \in 0..((p + c) - 1)
      <4>1. k =< c /\ w \in v..(v + k - 1)
        BY <1>1, <3>1
      <4> QED BY ONLY <4>1, v \in Nat, p \in Nat, k \in Nat, c \in Nat
    <3> QED BY ONLY <3>1, <3>2, <3>3
  <2>2. CASE w \notin VPages(y)
    <3>1. w \in DOMAIN pt /\ pt'[w] = pt[w]
      BY <2>2 DEF Extended
    <3>2. w \in Nat /\ pt[w].p_page \in 0..(next_page - 1)
      BY <3>1 DEF TableOK
    <3> QED BY <1>1, <3>1, <3>2
  <2> QED BY <2>1, <2>2
<1>5. ASSUME NEW w \in Nat
      PROVE  w \in DOMAIN pt' <=> \E i \in DOMAIN page_allocs' : w \in VPages(page_allocs'[i])
  <2>1. w \in DOMAIN pt <=> \E i \in 1..l : w \in VPages(page_allocs[i])
    BY <1>2 DEF TableOK
  <2>2. w \in DOMAIN pt' <=> w \in DOMAIN pt \/ w \in VPages(y)
    BY DEF Extended
  <2>3. l + 1 \in 1..(l + 1) /\ \A i \in 1..l : i \in 1..(l + 1)
    OBVIOUS
  <2> QED BY <1>2, <1>3, <2>1, <2>2, <2>3
<1>6. ASSUME Apart', NEW i \in DOMAIN page_allocs', NEW w \in VPages(page_allocs'[i])
      PROVE  pt'[w].p_page = page_allocs'[i].p_page + (w - page_allocs'[i].v_page)
  <2>1. \A m, n \in 1..(l + 1) : m # n => VPages(page_allocs'[m]) \cap VPages(page_allocs'[n]) = {}
    BY <1>2, <1>6 DEF Apart, VPages
  <2>2. CASE i = l + 1
    BY <1>2, <2>2 DEF Extended
  <2>3. CASE i # l + 1
    <3>1. i \in 1..l /\ page_allocs'[i] = page_allocs[i]
      BY <1>2, <1>3, <2>3
    <3>2. w \notin VPages(y)
      <4>1. i \in 1..(l + 1) /\ l + 1 \in 1..(l + 1) /\ page_allocs'[l + 1] = y
        BY <1>2
      <4>2. VPages(page_allocs'[i]) \cap VPages(y) = {}
        BY ONLY <2>1, <2>3, <4>1
      <4> QED BY <1>6, <4>2
    <3>3. Apart
      <4>1. \A m \in 1..l : m \in 1..(l + 1)
        OBVIOUS
      <4> QED BY <1>2, <2>1, <4>1 DEF Apart
    <3>4. pt[w].p_page = page_allocs[i].p_page + (w - page_allocs[i].v_page)
      BY <1>2, <3>1, <3>3 DEF TableOK
    <3>5. w \in DOMAIN pt
      <4>1. w \in Nat
        <5>1. page_allocs[i] \in Alloc
          BY <1>2, <3>1, AllocType
        <5>2. page_allocs[i].v_page \in Nat /\ page_allocs[i].v_pages \in Nat
          BY <5>1, AllocFields
        <5> QED BY <3>1, <5>2 DEF VPages
      <4> QED BY <1>2, <3>1, <4>1 DEF TableOK
    <3> QED BY <3>1, <3>2, <3>4, <3>5 DEF Extended
  <2> QED BY <2>2, <2>3
<1>7. TableOK'
  BY ONLY <1>4, <1>5, <1>6 DEF TableOK, VPages
<1>8. next_page \in Nat /\ next_page' \in Nat /\ next_page =< next_page'
  <2>1. next_page = p /\ next_page' = p + c
    BY <1>1
  <2> QED BY ONLY <2>1, p \in Nat, c \in Nat
<1>9. ASSUME NEW i \in 1..l
      PROVE  /\ page_allocs[i].p_page \in Nat /\ page_allocs[i].v_pages \in Nat
             /\ page_allocs[i].p_page + page_allocs[i].v_pages =< next_page
  BY <1>2, AllocType, AllocFields DEF BlocksOK, BlockOK
<1>10. ASSUME NEW i \in 1..(l + 1)
       PROVE  page_allocs'[i].p_page + page_allocs'[i].v_pages =< next_page'
  <2>1. CASE i = l + 1
    BY <1>1, <1>2, <1>8, <2>1
  <2>2. CASE i # l + 1
    BY <1>2, <1>3, <1>8, <1>9, <2>2
  <2> QED BY <2>1, <2>2
<1>11. ASSUME NEW i \in 1..(l + 1), NEW j \in 1..(l + 1), i # j
       PROVE  BlocksApart(page_allocs'[i], page_allocs'[j])
  <2>1. CASE i = l + 1
    <3>1. j \in 1..l
      BY <1>11, <2>1
    <3> QED BY <1>1, <1>2, <1>9, <2>1, <3>1 DEF BlocksApart
  <2>2. CASE j = l + 1
    <3>1. i \in 1..l
      BY <1>11, <2>2
    <3> QED BY <1>1, <1>2, <1>9, <2>2, <3>1 DEF BlocksApart
  <2>3. CASE i # l + 1 /\ j # l + 1
    BY <1>2, <1>3, <1>11, <2>3 DEF BlocksOK
  <2> QED BY <2>1, <2>2, <2>3
<1>12. BlocksOK'
  BY <1>2, <1>10, <1>11 DEF BlocksOK, BlockOK
<1> QED BY <1>7, <1>12

LEMMA MapPagesExtends ==
  ASSUME NEW v \in Nat, NEW p \in Nat, NEW k \in Nat, NEW right, NEW y \in Alloc,
         y.v_page = v, y.p_page = p, y.v_pages = k, NEW table, DOMAIN table = DOMAIN pt,
         \A w \in DOMAIN pt : table[w] = pt[w], pt' = MapPages(table, v, p, k, right)
  PROVE  Extended(y, right)
<1>1. VPages(y) = v..(v + k - 1)
  BY DEF VPages
<1>2. DOMAIN pt' = DOMAIN pt \cup VPages(y)
  BY <1>1 DEF MapPages
<1>3. ASSUME NEW w \in VPages(y)
      PROVE  pt'[w] = [p_page |-> y.p_page + (w - y.v_page), right |-> right]
  <2>1. w \in v..(v + k - 1) /\ p + w - v = p + (w - v)
    BY <1>1
  <2> QED BY <1>1, <2>1 DEF MapPages
<1>4. ASSUME NEW w \in DOMAIN pt, w \notin VPages(y) PROVE pt'[w] = pt[w]
  BY <1>1, <1>4 DEF MapPages
<1> QED BY <1>2, <1>3, <1>4 DEF Extended

(* The loop goes on to the next header. *)
HeaderValues == {Headers[j] : j \in DOMAIN Headers}

LEMMA TailFacts ==
  ASSUME NEW S, NEW s \in Seq(S), s # <<>>
  PROVE  /\ Tail(s) \in Seq(S) /\ Len(Tail(s)) = Len(s) - 1 /\ Len(s) \in Nat /\ Len(s) >= 1
         /\ 1 \in DOMAIN s /\ Head(s) = s[1]
         /\ \A i \in DOMAIN Tail(s) : i \in Nat /\ i + 1 \in DOMAIN s /\ Tail(s)[i] = s[i + 1]
<1>1. Tail(s) \in Seq(S) /\ Len(Tail(s)) = Len(s) - 1 /\ Len(s) \in Nat /\ Len(s) >= 1
  OBVIOUS
<1>2. 1 \in DOMAIN s /\ Head(s) = s[1]
  BY <1>1
<1>3. ASSUME NEW i \in DOMAIN Tail(s) PROVE i \in Nat /\ i + 1 \in DOMAIN s /\ Tail(s)[i] = s[i + 1]
  <2>1. i \in 1..(Len(s) - 1)
    BY <1>1
  <2>2. i \in Nat /\ i + 1 \in 1..Len(s)
    BY <1>1, <2>1
  <2>3. Tail(s)[i] = s[i + 1]
    BY <2>1
  <2> QED BY <2>2, <2>3
<1> QED BY <1>1, <1>2, <1>3

LEMMA LoopStep ==
  ASSUME Types, LoadOK, page_allocs # <<>>, NEW N \in Nat, HeadersAre(N), prog # <<>>,
         prog' = Tail(prog), file' = file
  PROVE  /\ Headers' = Headers /\ prog' \in Seq(HeaderValues)
         /\ Passed \in Nat /\ Passed + 1 \in 1..N /\ Passed' = Passed + 1
         /\ Head(prog) = Headers[Passed + 1]
         /\ Len(prog') =< N /\ \A i \in DOMAIN prog' : prog'[i] = Headers[Passed' + i]
<1>1. Headers' = Headers /\ N = Len(Headers)
  BY DEF Headers, HeadersAre
<1>2. prog \in Seq(HeaderValues)
  BY DEF Types, HeaderValues
<1>3. /\ prog' \in Seq(HeaderValues) /\ Len(prog') = Len(prog) - 1 /\ Len(prog) \in Nat
      /\ Len(prog) >= 1 /\ 1 \in DOMAIN prog /\ Head(prog) = prog[1]
      /\ \A i \in DOMAIN prog' : i \in Nat /\ i + 1 \in DOMAIN prog /\ prog'[i] = prog[i + 1]
  BY <1>2, TailFacts
<1>4. Len(prog) =< N /\ \A i \in DOMAIN prog : prog[i] = Headers[Passed + i]
  BY <1>1 DEF LoadOK
<1>5. Passed = N - Len(prog) /\ Passed' = N - Len(prog')
  BY <1>1 DEF Passed
<1>6. Passed \in Nat /\ Passed + 1 \in 1..N /\ Passed' = Passed + 1 /\ Len(prog') =< N
  BY <1>3, <1>4, <1>5
<1>7. Head(prog) = Headers[Passed + 1]
  BY <1>3, <1>4
<1>8. ASSUME NEW i \in DOMAIN prog' PROVE prog'[i] = Headers[Passed' + i]
  <2>1. i \in Nat /\ i + 1 \in DOMAIN prog /\ prog'[i] = prog[i + 1]
    BY <1>3
  <2>2. prog[i + 1] = Headers[Passed + (i + 1)]
    BY <1>4, <2>1
  <2>3. Passed' + i = Passed + (i + 1)
    BY <1>6, <2>1
  <2> QED BY <2>1, <2>2, <2>3
<1> QED BY <1>1, <1>3, <1>6, <1>7, <1>8

LEMMA LoadingOp ==
  ASSUME Types, op.call = "load"
  PROVE  op = LoadOp
BY DEF Types, NoOp, CallOp

LEMMA LoadNotCall == LoadOp \notin CallOp /\ NoOp \notin CallOp /\ LoadOp # NoOp
BY DEF LoadOp, NoOp, CallOp

LEMMA SkipStep ==
  ASSUME UserInv, skip_segment
  PROVE  UserInv'
<1>1. Types /\ TableOK /\ BlocksOK /\ LoadOK /\ op = LoadOp /\ op \notin CallOp
  BY LoadingOp, LoadNotCall DEF UserInv, skip_segment
<1>2. /\ prog # <<>> /\ Head(prog).p_type # PT_LOAD /\ prog' = Tail(prog)
      /\ UNCHANGED <<elf, file, page_allocs, pt, next_page, context, phys, op, calls, before>>
  BY DEF skip_segment
<1>3. page_allocs # <<>> /\ Parse(file).ok
  BY <1>1, LoadNotCall DEF LoadOK
<1>4. PICK N \in Nat : HeadersAre(N)
  BY <1>1, <1>3, HeadersExist
<1>5. /\ Headers' = Headers /\ prog' \in Seq(HeaderValues)
      /\ Passed \in Nat /\ Passed + 1 \in 1..N /\ Passed' = Passed + 1
      /\ Head(prog) = Headers[Passed + 1]
      /\ Len(prog') =< N /\ \A i \in DOMAIN prog' : prog'[i] = Headers[Passed' + i]
  BY <1>1, <1>2, <1>3, <1>4, LoopStep
<1>6. Types'
  BY <1>1, <1>2, <1>5 DEF Types, HeaderValues
<1>7. TableOK' /\ BlocksOK' /\ (WellFormed' <=> WellFormed)
  BY <1>1, <1>2 DEF TableOK, BlocksOK, BlockOK, Apart, WellFormed, Segments
<1>8. \A h : Loaded(h) => Loaded(h)'
  BY <1>2, LoadedKept
<1>9. ASSUME WellFormed, NEW j \in 1..(Passed + 1), Headers[j].p_type = PT_LOAD
      PROVE  Loaded(Headers[j])'
  <2>1. j # Passed + 1
    BY <1>2, <1>5, <1>9
  <2>2. j \in 1..Passed
    BY <1>5, <2>1
  <2>3. Loaded(Headers[j])
    BY <1>1, <1>3, <1>9, <2>2 DEF LoadOK
  <2> QED BY <1>2, <2>3 DEF Loaded, Headers
<1>10. N = Len(Headers)
  BY <1>4 DEF HeadersAre
<1>11. LoadOK'
  <2>1. /\ Parse(file').ok /\ context'.entry = elf'.entry
        /\ page_allocs'[1].v_pages = USER_STACK_PAGES
        /\ context'.sp = (page_allocs'[1].v_page + USER_STACK_PAGES) * PAGE_SIZE
    BY <1>1, <1>2, <1>3 DEF LoadOK
  <2>2. op' = LoadOp /\ page_allocs' # <<>>
    BY <1>1, <1>2, <1>3
  <2>3. WellFormed' => \A j \in 1..Passed' : Headers'[j].p_type = PT_LOAD => Loaded(Headers[j])'
    BY <1>5, <1>7, <1>9
  <2> QED BY <1>5, <1>10, <2>1, <2>2, <2>3, LoadNotCall DEF LoadOK
<1> QED BY <1>1, <1>2, <1>6, <1>7, <1>11 DEF UserInv, CopyOK

LEMMA CreateEndStep ==
  ASSUME UserInv, create_end
  PROVE  UserInv'
<1>1. Types /\ TableOK /\ BlocksOK /\ LoadOK /\ op = LoadOp
  BY LoadingOp DEF UserInv, create_end
<1>2. prog = <<>> /\ op' = NoOp /\ UNCHANGED <<loadVars, phys, calls, before>>
  BY DEF create_end
<1>3. page_allocs # <<>> /\ op' \notin CallOp
  BY <1>1, <1>2, LoadNotCall DEF LoadOK
<1>4. Types' /\ TableOK' /\ BlocksOK' /\ LoadOK'
  BY <1>1, <1>2, <1>3, SameImage DEF Types
<1> QED BY <1>3, <1>4 DEF UserInv, CopyOK

LEMMA InitHolds == Init => UserInv
<1> SUFFICES ASSUME Init PROVE UserInv
  OBVIOUS
<1>1. phys \in Memory /\ before \in Memory
  BY DEF Init, Memory, Stale
<1>2. next_page \in 0..PhysPages /\ calls \in 0..MaxCalls
  BY UserMemoryAssumption DEF Init
<1>3. page_allocs = <<>> /\ page_allocs \in Seq(Alloc) /\ DOMAIN page_allocs = {} /\ DOMAIN pt = {}
  BY DEF Init
<1>4. Types
  BY <1>1, <1>2, <1>3 DEF Init, Types, FileOf
<1>5. TableOK /\ BlocksOK
  BY <1>3 DEF TableOK, BlocksOK
<1>6. LoadOK
  BY <1>3, LoadNotCall DEF LoadOK, Init
<1>7. CopyOK
  BY LoadNotCall DEF CopyOK, Init
<1> QED BY <1>4, <1>5, <1>6, <1>7 DEF UserInv

LEMMA CreateBeginStep ==
  ASSUME UserInv, create_begin
  PROVE  UserInv'
<1>1. Types /\ TableOK /\ BlocksOK /\ LoadOK
  BY DEF UserInv
<1>2. /\ page_allocs = <<>> /\ Parse(file).ok /\ prog' = Headers
      /\ op' = LoadOp /\ UNCHANGED <<elf, file, phys, calls, before>>
  BY DEF create_begin, Headers, LoadOp
<1>3. next_page = 0 /\ DOMAIN pt = {}
  BY <1>1, <1>2 DEF LoadOK
<1>4. /\ USER_STACK_PAGES \in Nat /\ KernelBase \in Nat /\ USER_STACK_PAGES =< PhysPages
      /\ PhysPages \in Nat /\ KernelBase + next_page \in Nat /\ next_page \in Nat
  BY <1>3, UserMemoryAssumption
<1>5. PICK y \in Alloc : y = [v_page |-> KernelBase + next_page, p_page |-> next_page,
                              v_pages |-> USER_STACK_PAGES, flags |-> {"read", "write"}]
  BY <1>4 DEF Alloc
<1>6. /\ y.v_page = KernelBase + next_page /\ y.p_page = next_page /\ y.v_pages = USER_STACK_PAGES
  BY <1>5
<1>7. page_allocs' = <<y>> /\ page_allocs' = Append(page_allocs, y) /\ page_allocs' \in Seq(Alloc)
  BY <1>2, <1>5 DEF create_begin
<1>8. next_page' = next_page + USER_STACK_PAGES /\ next_page' \in 0..PhysPages
  BY <1>3, <1>4 DEF create_begin
<1>9. Extended(y, "data")
  <2>1. pt' = MapPages(<<>>, KernelBase + next_page, next_page, USER_STACK_PAGES, "data")
    BY DEF create_begin
  <2>2. DOMAIN <<>> = DOMAIN pt /\ \A w \in DOMAIN pt : <<>>[w] = pt[w]
    BY <1>3
  <2> QED BY <1>4, <1>6, <2>1, <2>2, MapPagesExtends
<1>10. TableOK' /\ BlocksOK'
  BY <1>1, <1>4, <1>6, <1>7, <1>8, <1>9, AddBlock
<1>11. PICK N \in Nat : HeadersAre(N)
  BY <1>1, <1>2, HeadersExist
<1>12. Headers' = Headers
  BY <1>2 DEF Headers
<1>13. Types'
  BY <1>1, <1>2, <1>7, <1>8, <1>11, <1>12 DEF Types, HeadersAre
<1>14. /\ N = Len(Headers) /\ Passed' = 0 /\ DOMAIN Headers = 1..N
  BY <1>2, <1>11, <1>12 DEF HeadersAre, Passed
<1>15. \A i \in DOMAIN prog' : prog'[i] = Headers'[Passed' + i]
  <2>1. \A i \in 1..N : 0 + i = i
    OBVIOUS
  <2> QED BY <1>2, <1>12, <1>14, <2>1
<1>16. /\ context'.entry = elf'.entry
       /\ context'.sp = (page_allocs'[1].v_page + USER_STACK_PAGES) * PAGE_SIZE
       /\ page_allocs'[1].v_pages = USER_STACK_PAGES
  <2>1. context' = [sp |-> (KernelBase + next_page + USER_STACK_PAGES) * PAGE_SIZE,
                    entry |-> Parse(file).e_entry]
    BY DEF create_begin
  <2>2. Parse(file).e_entry = elf.entry
    <3>1. Storable(elf) /\ file = FileOf(elf)
      BY <1>1, UserMemoryAssumption DEF Types
    <3> QED BY <1>2, <3>1, ParseExact DEF ParsedAs
  <2>3. page_allocs'[1] = y
    BY <1>7
  <2> QED BY <1>2, <1>6, <2>1, <2>2, <2>3
<1>17. LoadOK'
  <2>1. page_allocs' # <<>> /\ Parse(file').ok /\ Len(prog') =< Len(Headers')
    BY <1>2, <1>7, <1>12, <1>14
  <2>2. \A j \in 1..Passed' : FALSE
    BY <1>14
  <2> QED BY <1>2, <1>15, <1>16, <2>1, <2>2, LoadNotCall DEF LoadOK
<1>18. CopyOK'
  BY <1>2, LoadNotCall DEF CopyOK
<1> QED BY <1>10, <1>13, <1>17, <1>18 DEF UserInv

(* The bytes of a segment that fits are in its block. *)
LEMMA SegmentInBlock ==
  ASSUME NEW h, HeaderOK(h), Fits(h), NEW q \in Nat, NEW i \in 0..(h.p_filesz - 1)
  PROVE  /\ (q * PAGE_SIZE + Offset(h.v_addr)) + i \in Nat
         /\ q * PAGE_SIZE =< (q * PAGE_SIZE + Offset(h.v_addr)) + i
         /\ (q * PAGE_SIZE + Offset(h.v_addr)) + i < (q + DivCeil(h.p_memsz, PAGE_SIZE)) * PAGE_SIZE
<1>1. PICK s \in Nat, n \in Nat, o \in Nat, m \in Nat, f \in Nat :
        /\ s = PAGE_SIZE /\ n = DivCeil(h.p_memsz, PAGE_SIZE) /\ o = Offset(h.v_addr)
        /\ m = h.p_memsz /\ f = h.p_filesz
  <2>1. h.p_memsz \in Nat /\ h.v_addr \in Nat /\ h.p_filesz \in Nat
    BY DEF HeaderOK
  <2>2. DivCeil(h.p_memsz, PAGE_SIZE) \in Nat /\ Offset(h.v_addr) \in Nat
    BY <2>1, DivCeilType, OffsetNat
  <2> QED BY <2>1, <2>2, PageSize
<1>2. f =< m /\ o + m =< n * s
  BY <1>1 DEF Fits
<1>3. q * s \in Nat /\ n * s \in Nat /\ (q + n) * s = q * s + n * s
  BY TimesNat, TimesAdd
<1>4. i \in 0..(f - 1)
  BY <1>1
<1>5. (q * s + o) + i \in Nat /\ q * s =< (q * s + o) + i /\ (q * s + o) + i < (q + n) * s
  BY ONLY <1>2, <1>3, <1>4, o \in Nat, m \in Nat, f \in Nat
<1> QED BY <1>1, <1>5

(* The iteration for one segment. *)
LoadStep(h, n, c, y) ==
  /\ n = DivCeil(h.p_memsz, PAGE_SIZE) /\ n =< c /\ next_page + c =< PhysPages
  /\ y.v_page = Page(h.v_addr) /\ y.p_page = next_page /\ y.v_pages = n
  /\ page_allocs' = Append(page_allocs, y) /\ next_page' = next_page + c
  /\ Extended(y, Right(h.p_flags)) /\ phys' = CopySegment(h, next_page)

LEMMA LoadSegmentShape ==
  ASSUME Types, TableOK, load_segment, HeaderOK(Head(prog))
  PROVE  \E n \in Nat, c \in Nat, y \in Alloc : LoadStep(Head(prog), n, c, y)
<1>1. PICK h : h = Head(prog)
  OBVIOUS
<1>2. h.p_memsz \in Nat /\ h.v_addr \in Nat /\ h.p_flags \subseteq {"exec", "write", "read"}
  BY <1>1 DEF HeaderOK
<1>3. PICK n \in Nat, v \in Nat : n = DivCeil(h.p_memsz, PAGE_SIZE) /\ v = Page(h.v_addr)
  BY <1>2, DivCeilType, PageFacts
<1>4. (\E p \in BlockSizes : p >= n) /\ next_page + CeilPow(n) =< PhysPages
  BY <1>1, <1>3 DEF load_segment
<1>5. PICK c \in Nat : c = CeilPow(n) /\ n =< c
  BY <1>4, CeilPowFacts
<1>6. next_page \in Nat
  BY DEF Types
<1>7. PICK y \in Alloc : y = [v_page |-> v, p_page |-> next_page, v_pages |-> n, flags |-> h.p_flags]
  BY <1>2, <1>6 DEF Alloc
<1>8. y.v_page = v /\ y.p_page = next_page /\ y.v_pages = n
  BY <1>7
<1>9. /\ page_allocs' = Append(page_allocs, y) /\ next_page' = next_page + c
      /\ pt' = MapPages(pt, v, next_page, n, Right(h.p_flags)) /\ phys' = CopySegment(h, next_page)
  BY <1>1, <1>3, <1>5, <1>7 DEF load_segment
<1>10. Extended(y, Right(h.p_flags))
  BY <1>6, <1>8, <1>9, MapPagesExtends
<1>11. LoadStep(h, n, c, y)
  BY <1>3, <1>4, <1>5, <1>8, <1>9, <1>10 DEF LoadStep
<1> QED BY <1>1, <1>11

LEMMA LoadStepKeeps ==
  ASSUME Types, NEW h, HeaderOK(h), NEW n \in Nat, NEW c \in Nat, NEW y \in Alloc, LoadStep(h, n, c, y)
  PROVE  /\ phys' \in Memory /\ next_page' \in 0..PhysPages /\ page_allocs' \in Seq(Alloc)
         /\ page_allocs # <<>> => page_allocs'[1] = page_allocs[1]
         /\ \A b \in Nat : b < next_page * PAGE_SIZE => phys'[b] = phys[b]
<1>1. next_page' \in 0..PhysPages /\ next_page \in Nat
  BY UserMemoryAssumption DEF LoadStep, Types
<1>2. page_allocs' \in Seq(Alloc) /\ (page_allocs # <<>> => page_allocs'[1] = page_allocs[1])
  BY DEF LoadStep, Types
<1>3. phys \in Memory /\ phys' = CopySegment(h, next_page)
  BY DEF Types, LoadStep
<1>4. phys' \in Memory
  BY <1>3, ByteAtType DEF CopySegment, Memory
<1>5. PICK s \in Nat, o \in Nat, p \in Nat, M \in Nat, f \in Nat :
        /\ s = next_page * PAGE_SIZE /\ o = Offset(h.v_addr) /\ p = PhysPages * PAGE_SIZE
        /\ f = h.p_filesz /\ s =< p /\ M = s + o
  <2>1. h.v_addr \in Nat /\ h.p_filesz \in Nat
    BY DEF HeaderOK
  <2>2. Offset(h.v_addr) \in Nat
    BY <2>1, OffsetNat
  <2>3. next_page * PAGE_SIZE \in Nat /\ PhysPages * PAGE_SIZE \in Nat
    BY <1>1, PageSize, TimesNat, UserMemoryAssumption
  <2>4. next_page =< PhysPages /\ PhysPages \in Nat
    BY UserMemoryAssumption DEF Types
  <2>5. next_page * PAGE_SIZE =< PhysPages * PAGE_SIZE
    BY <1>1, <2>4, PageSize, TimesMono
  <2>6. next_page * PAGE_SIZE + Offset(h.v_addr) \in Nat
    BY <2>2, <2>3
  <2> QED BY ONLY <2>1, <2>2, <2>3, <2>5, <2>6
<1>6. ASSUME NEW b \in Nat, b < s PROVE phys'[b] = phys[b]
  <2>1. b \in 0..(p - 1) /\ ~(b - (s + o) \in 0..(f - 1))
    BY ONLY <1>5, <1>6, b \in Nat, s \in Nat, p \in Nat, o \in Nat, f \in Nat
  <2>2. DOMAIN phys = 0..(p - 1)
    BY <1>3, <1>5 DEF Memory
  <2> QED BY <1>3, <1>5, <2>1, <2>2 DEF CopySegment
<1> QED BY <1>1, <1>2, <1>4, <1>5, <1>6

LEMMA SegmentLoaded ==
  ASSUME Types, NEW h, HeaderOK(h), Fits(h), NEW n \in Nat, NEW c \in Nat, NEW y \in Alloc,
         LoadStep(h, n, c, y)
  PROVE  Loaded(h)'
<1>1. PICK q \in Nat : /\ q = next_page /\ q + n =< next_page' /\ next_page' = q + c
                       /\ q + c =< PhysPages /\ n =< c /\ n = DivCeil(h.p_memsz, PAGE_SIZE)
  BY DEF LoadStep, Types
<1>2. ASSUME NEW v \in PagesOf(h)
      PROVE  /\ v \in DOMAIN pt'
             /\ pt'[v] = [p_page |-> q + (v - Page(h.v_addr)), right |-> Right(h.p_flags)]
  <2>1. PagesOf(h) = VPages(y) /\ y.p_page = q /\ y.v_page = Page(h.v_addr)
    BY <1>1 DEF LoadStep, PagesOf, VPages
  <2> QED BY <2>1 DEF LoadStep, Extended
<1>3. ASSUME NEW i \in 0..(h.p_filesz - 1)
      PROVE  phys'[(q * PAGE_SIZE + Offset(h.v_addr)) + i] = ByteAt(h.p_offset + i)
  <2>1. PICK b \in Nat, s \in Int, M \in Nat :
          /\ s = q * PAGE_SIZE + Offset(h.v_addr) /\ b = s + i
          /\ b < (q + n) * PAGE_SIZE /\ M = PhysPages * PAGE_SIZE
    <3>1. /\ (q * PAGE_SIZE + Offset(h.v_addr)) + i \in Nat
          /\ (q * PAGE_SIZE + Offset(h.v_addr)) + i < (q + n) * PAGE_SIZE
      BY <1>1, SegmentInBlock
    <3>2. PhysPages * PAGE_SIZE \in Nat /\ q * PAGE_SIZE \in Nat
      BY PageSize, TimesNat, PhysType
    <3>3. h.v_addr \in Nat
      BY DEF HeaderOK
    <3>4. Offset(h.v_addr) \in Nat
      BY <3>3, OffsetNat
    <3>5. q * PAGE_SIZE + Offset(h.v_addr) \in Int
      BY <3>2, <3>4
    <3> QED BY ONLY <3>1, <3>2, <3>5
  <2>2. (q + n) * PAGE_SIZE =< M /\ (q + n) * PAGE_SIZE \in Nat
    <3>1. q + n \in Nat /\ PhysPages \in Nat /\ q + n =< PhysPages
      BY <1>1, UserMemoryAssumption
    <3> QED BY <2>1, <3>1, PageSize, TimesMono, TimesNat
  <2>3. b \in 0..(M - 1) /\ b - s = i
    BY <2>1, <2>2
  <2>4. DOMAIN phys = 0..(M - 1)
    BY <2>1 DEF Types, Memory
  <2>5. phys' = CopySegment(h, q)
    BY <1>1 DEF LoadStep
  <2> QED BY <2>1, <2>3, <2>4, <2>5 DEF CopySegment
<1> QED BY <1>1, <1>2, <1>3 DEF Loaded

(* A segment that was loaded before shares neither page nor byte with it. *)
LEMMA OldSegmentKept ==
  ASSUME Types, NEW h, HeaderOK(h), NEW n \in Nat, NEW c \in Nat, NEW y \in Alloc,
         LoadStep(h, n, c, y), NEW g, HeaderOK(g), Fits(g), Loaded(g),
         PagesOf(g) \cap PagesOf(h) = {}, calls' = calls
  PROVE  Loaded(g)'
<1>1. PICK q \in Nat, k \in Nat :
        /\ k = DivCeil(g.p_memsz, PAGE_SIZE) /\ q + k =< next_page
        /\ \A v \in PagesOf(g) :
             /\ v \in DOMAIN pt
             /\ pt[v] = [p_page |-> q + (v - Page(g.v_addr)), right |-> Right(g.p_flags)]
        /\ calls = 0 => \A i \in 0..(g.p_filesz - 1) :
                          phys[(q * PAGE_SIZE + Offset(g.v_addr)) + i] = ByteAt(g.p_offset + i)
  <2>1. g.p_memsz \in Nat
    BY DEF HeaderOK
  <2> QED BY <2>1, DivCeilType DEF Loaded
<1>2. q + k =< next_page'
  BY <1>1 DEF LoadStep, Types
<1>3. ASSUME NEW v \in PagesOf(g) PROVE v \in DOMAIN pt' /\ pt'[v] = pt[v]
  <2>1. PagesOf(h) = VPages(y)
    BY DEF LoadStep, PagesOf, VPages
  <2>2. v \notin VPages(y) /\ v \in DOMAIN pt
    BY <1>1, <2>1
  <2> QED BY <2>2 DEF LoadStep, Extended
<1>4. ASSUME NEW i \in 0..(g.p_filesz - 1)
      PROVE  phys'[(q * PAGE_SIZE + Offset(g.v_addr)) + i] = phys[(q * PAGE_SIZE + Offset(g.v_addr)) + i]
  <2>1. PICK b \in Nat : b = (q * PAGE_SIZE + Offset(g.v_addr)) + i /\ b < (q + k) * PAGE_SIZE
    BY <1>1, SegmentInBlock
  <2>2. next_page \in Nat /\ q + k \in Nat /\ q + k =< next_page
    BY <1>1 DEF Types
  <2>3. (q + k) * PAGE_SIZE =< next_page * PAGE_SIZE
    BY <2>2, PageSize, TimesMono
  <2>4. (q + k) * PAGE_SIZE \in Nat /\ next_page * PAGE_SIZE \in Nat
    BY <2>2, PageSize, TimesNat
  <2>5. b < next_page * PAGE_SIZE
    BY <2>1, <2>3, <2>4
  <2> QED BY <2>1, <2>5, LoadStepKeeps
<1> QED BY <1>1, <1>2, <1>3, <1>4 DEF Loaded

LEMMA LoadSegmentStep ==
  ASSUME UserInv, load_segment
  PROVE  UserInv'
<1>1. Types /\ TableOK /\ BlocksOK /\ LoadOK /\ op = LoadOp /\ op \notin CallOp
  BY LoadingOp, LoadNotCall DEF UserInv, load_segment
<1>2. /\ prog # <<>> /\ prog' = Tail(prog) /\ Head(prog).p_type = PT_LOAD
      /\ UNCHANGED <<elf, file, context, op, calls, before>>
  BY DEF load_segment
<1>3. page_allocs # <<>> /\ Parse(file).ok
  BY <1>1, LoadNotCall DEF LoadOK
<1>4. PICK N \in Nat : HeadersAre(N)
  BY <1>1, <1>3, HeadersExist
<1>5. /\ Headers' = Headers /\ prog' \in Seq(HeaderValues)
      /\ Passed \in Nat /\ Passed + 1 \in 1..N /\ Passed' = Passed + 1
      /\ Head(prog) = Headers[Passed + 1]
      /\ Len(prog') =< N /\ \A i \in DOMAIN prog' : prog'[i] = Headers[Passed' + i]
  BY <1>1, <1>2, <1>3, <1>4, LoopStep
<1>6. PICK h : h = Head(prog) /\ HeaderOK(h) /\ h = Headers[Passed + 1]
  BY <1>4, <1>5 DEF HeadersAre
<1>7. PICK n \in Nat, c \in Nat, y \in Alloc : LoadStep(h, n, c, y)
  BY <1>1, <1>6, LoadSegmentShape
<1>8. /\ phys' \in Memory /\ next_page' \in 0..PhysPages /\ page_allocs' \in Seq(Alloc)
      /\ page_allocs'[1] = page_allocs[1]
  BY <1>1, <1>3, <1>6, <1>7, LoadStepKeeps
<1>9. Types'
  BY <1>1, <1>2, <1>5, <1>8 DEF Types, HeaderValues
<1>10. TableOK' /\ BlocksOK'
  BY <1>1, <1>7, AddBlock DEF LoadStep
<1>11. ASSUME WellFormed, NEW j \in 1..(Passed + 1), Headers[j].p_type = PT_LOAD
       PROVE  \A g : g = Headers[j] => Loaded(g)'
  <2>1. Fits(h) /\ \A k \in 1..N : k # Passed + 1 /\ Headers[k].p_type = PT_LOAD =>
                       PagesOf(Headers[k]) \cap PagesOf(h) = {}
    <3>1. PICK m \in 1..N : m = Passed + 1
      BY <1>5
    <3>2. h = Headers[m] /\ Headers[m].p_type = PT_LOAD
      BY <1>2, <1>6, <3>1
    <3>3. Fits(Headers[m]) /\ \A k \in 1..N : k # m /\ Headers[k].p_type = PT_LOAD =>
                                PagesOf(Headers[k]) \cap PagesOf(Headers[m]) = {}
      BY ONLY <1>4, <1>11, <3>2, N \in Nat, m \in 1..N, WellFormedHeaders
    <3> QED BY ONLY <3>1, <3>2, <3>3
  <2>2. CASE j = Passed + 1
    <3>1. Loaded(h)'
      BY <1>1, <1>6, <1>7, <2>1, SegmentLoaded
    <3> QED BY <1>6, <2>2, <3>1
  <2>3. CASE j # Passed + 1
    <3>1. j \in 1..Passed /\ j \in 1..N
      BY <1>5, <2>3
    <3>2. PICK g : g = Headers[j] /\ HeaderOK(g) /\ Fits(g) /\ Loaded(g)
      BY <1>1, <1>3, <1>4, <1>11, <3>1, WellFormedHeaders DEF LoadOK, HeadersAre
    <3>3. PagesOf(g) \cap PagesOf(h) = {}
      BY <1>11, <2>1, <2>3, <3>1, <3>2
    <3>4. Loaded(g)'
      BY <1>1, <1>2, <1>6, <1>7, <3>2, <3>3, OldSegmentKept
    <3> QED BY <3>2, <3>4
  <2> QED BY <2>2, <2>3
<1>12. WellFormed' <=> WellFormed
  BY <1>2 DEF WellFormed, Segments
<1>13. LoadOK'
  <2>1. /\ Parse(file').ok /\ context'.entry = elf'.entry
        /\ page_allocs'[1].v_pages = USER_STACK_PAGES
        /\ context'.sp = (page_allocs'[1].v_page + USER_STACK_PAGES) * PAGE_SIZE
    BY <1>1, <1>2, <1>3, <1>8 DEF LoadOK
  <2>2. op' = LoadOp /\ page_allocs' # <<>>
    BY <1>1, <1>2, <1>7 DEF LoadStep, Types
  <2>3. WellFormed' => \A j \in 1..Passed' : Headers'[j].p_type = PT_LOAD => Loaded(Headers[j])'
    <3>1. ASSUME WellFormed, NEW j \in 1..(Passed + 1), Headers[j].p_type = PT_LOAD
          PROVE  Loaded(Headers[j])'
      <4>1. PICK g : g = Headers[j] /\ g = Headers'[j] /\ Loaded(g)'
        BY <1>5, <1>11, <3>1
      <4> QED BY <4>1 DEF Loaded
    <3> QED BY <1>5, <1>12, <3>1
  <2>4. N = Len(Headers')
    BY <1>4, <1>5 DEF HeadersAre
  <2> QED BY <1>5, <2>1, <2>2, <2>3, <2>4, LoadNotCall DEF LoadOK
<1>14. CopyOK'
  BY <1>1, <1>2 DEF CopyOK
<1> QED BY <1>9, <1>10, <1>13, <1>14 DEF UserInv

LEMMA Stutters ==
  ASSUME UserInv, UNCHANGED vars
  PROVE  UserInv'
<1>1. UNCHANGED <<elf, file, prog, page_allocs, pt, phys, next_page, context, op, calls, before>>
  BY DEF vars, loadVars
<1>2. Types' /\ TableOK' /\ BlocksOK'
  BY <1>1 DEF UserInv, Types, Headers, TableOK, Apart, BlocksOK, BlockOK
<1>3. Headers' = Headers /\ Passed' = Passed /\ (WellFormed' <=> WellFormed)
  BY <1>1 DEF Headers, Passed, WellFormed, Segments
<1>4. \A h : Loaded(h) => Loaded(h)'
  BY <1>1, LoadedKept
<1>5. LoadOK'
  BY <1>1, <1>3, <1>4 DEF UserInv, LoadOK
<1>6. CopyOK'
  BY <1>1 DEF UserInv, CopyOK, Copied, Same, Touched, NotNul, View, Mapped, Phys, Apart,
              StringArrives, MappedPrefix, InCall
<1> QED BY <1>2, <1>5, <1>6 DEF UserInv

LEMMA StepKeeps ==
  ASSUME UserInv, [Next]_vars
  PROVE  UserInv'
BY CreateBeginStep, SkipStep, LoadSegmentStep, CreateEndStep, CopyBlockStep, CopyEndStep, ScanStep,
   SyscallEndStep, SyscallSteps, Stutters DEF Next, Step

-----------------------------------------------------------------------------
(* What the invariant says of finished copies and of the loaded image. *)
LEMMA InvCopies == UserInv => SameMemory
<1> SUFFICES ASSUME UserInv PROVE SameMemory
  OBVIOUS
<1>1. Types /\ CopyOK /\ (InCall <=> op \in CallOp)
  BY InCallOp DEF UserInv
<1>2. ASSUME InCall, op.pc # "copy", Apart
      PROVE  /\ op.done = MappedPrefix(op.addr, Len(op.buf))
             /\ \A i \in 1..op.done : View(phys, op.addr + i - 1) = op.buf[i]
             /\ \A b \in DOMAIN phys :
                  phys[b] # before[b] => /\ op.dir = "to"
                                         /\ \E i \in 0..(op.done - 1) : b = Phys(op.addr + i)
  <2>1. PICK a \in Nat, d \in Nat, l \in Nat : /\ a = op.addr /\ d = op.done /\ l = Len(op.buf)
                                               /\ d =< l
    <3>1. op.addr \in Nat /\ op.done \in Nat /\ op.buf \in Seq(Nat)
      BY <1>1, <1>2, CallFields
    <3>2. Len(op.buf) \in Nat /\ op.done =< Len(op.buf)
      BY <1>1, <1>2, <3>1 DEF CopyOK
    <3> QED BY <3>1, <3>2
  <2>2. Copied(op, phys, before) /\ (d = l \/ ~Mapped(a + d))
    BY <1>1, <1>2, <2>1 DEF CopyOK
  <2>3. \A i \in 0..(d - 1) : Mapped(a + i) /\ View(phys, a + i) = op.buf[i + 1]
    BY <2>1, <2>2 DEF Copied, Same
  <2>4. MappedPrefix(a, l) = d
    <3>1. PrefixIs(a, l, d) /\ d \in 0..l
      BY <2>1, <2>2, <2>3 DEF PrefixIs
    <3> QED BY <3>1, PrefixUnique
  <2>5. ASSUME NEW i \in 1..d PROVE View(phys, a + i - 1) = op.buf[i]
    <3>1. i - 1 \in 0..(d - 1) /\ a + (i - 1) = a + i - 1 /\ (i - 1) + 1 = i
      OBVIOUS
    <3>2. View(phys, a + (i - 1)) = op.buf[(i - 1) + 1]
      BY ONLY <2>3, <3>1
    <3> QED BY <3>1, <3>2
  <2> QED BY <2>1, <2>2, <2>4, <2>5 DEF Copied, Touched
<1>3. CopiesMatchView
  BY <1>2 DEF CopiesMatchView
<1>4. StringArrives
  <2>1. InCall /\ op.call = "open" /\ op.pc = "end" /\ Apart => StringArrives
    BY <1>1 DEF CopyOK
  <2> QED BY <2>1 DEF StringArrives
<1> QED BY <1>3, <1>4 DEF SameMemory

LEMMA InvTypes == UserInv => TypeOK
<1> SUFFICES ASSUME UserInv PROVE TypeOK
  OBVIOUS
<1>1. Types /\ TableOK /\ BlocksOK /\ CopyOK
  BY DEF UserInv
<1>2. next_page \in 0..PhysPages /\ calls \in 0..MaxCalls
  BY <1>1 DEF Types
<1>3. \A i \in DOMAIN page_allocs : /\ page_allocs[i].p_page + page_allocs[i].v_pages =< next_page
                                    /\ page_allocs[i].flags \subseteq {"exec", "write", "read"}
  BY <1>1, AllocType DEF BlocksOK, BlockOK, Alloc
<1>4. \A v \in DOMAIN pt : pt[v].p_page \in 0..(next_page - 1)
  BY <1>1 DEF TableOK
<1>5. DOMAIN phys = 0..(PhysPages * PAGE_SIZE - 1) /\ DOMAIN before = DOMAIN phys
  BY <1>1 DEF Types, Memory
<1>6. op.call \in {"none", "load", "open", "read", "write", "close", "uname"}
  BY <1>1 DEF Types, CallOp, NoOp, LoadOp
<1>7. ASSUME InCall PROVE op.done \in 0..Len(op.buf) /\ op.pc \in {"copy", "scan", "end"}
  <2>1. op \in CallOp
    BY <1>1, <1>7, InCallOp
  <2>2. op.done \in Nat /\ op.buf \in Seq(Nat) /\ op.pc \in {"copy", "scan", "end"}
    BY <2>1, CallFields
  <2>3. op.done =< Len(op.buf) /\ Len(op.buf) \in Nat
    BY <1>1, <2>1, <2>2 DEF CopyOK
  <2> QED BY <2>2, <2>3
<1> QED BY <1>2, <1>3, <1>4, <1>5, <1>6, <1>7 DEF TypeOK

(* The address of byte i of a segment that fits is in the segment's pages. *)
LEMMA ByteInPages ==
  ASSUME NEW h, HeaderOK(h), Fits(h), NEW i \in 0..(h.p_memsz - 1)
  PROVE  /\ h.v_addr + i \in Nat /\ Page(h.v_addr + i) \in PagesOf(h)
         /\ Page(h.v_addr) \in Nat /\ Page(h.v_addr) =< Page(h.v_addr + i)
         /\ (h.v_addr + i) - Page(h.v_addr) * PAGE_SIZE = Offset(h.v_addr) + i
<1>1. PICK s \in Nat, n \in Nat, o \in Nat, m \in Nat, a \in Nat, v \in Nat :
        /\ s = PAGE_SIZE /\ n = DivCeil(h.p_memsz, PAGE_SIZE) /\ o = Offset(h.v_addr)
        /\ m = h.p_memsz /\ a = h.v_addr /\ v = Page(h.v_addr) /\ a = v * s + o
  <2>1. h.p_memsz \in Nat /\ h.v_addr \in Nat
    BY DEF HeaderOK
  <2>2. DivCeil(h.p_memsz, PAGE_SIZE) \in Nat
    BY <2>1, DivCeilType
  <2>3. /\ Offset(h.v_addr) \in 0..(PAGE_SIZE - 1) /\ Page(h.v_addr) \in Nat
        /\ h.v_addr = Page(h.v_addr) * PAGE_SIZE + Offset(h.v_addr)
    BY <2>1, PageFacts
  <2>4. Offset(h.v_addr) \in Nat
    BY <2>3, PageSize
  <2> QED BY <2>1, <2>2, <2>3, <2>4, PageSize
<1>2. o + m =< n * s
  BY <1>1 DEF Fits
<1>3. v * s \in Nat /\ n * s \in Nat /\ (v + n) * s = v * s + n * s
  BY TimesNat, TimesAdd
<1>4. i \in 0..(m - 1)
  BY <1>1
<1>5. a + i \in Nat /\ v * s =< a + i /\ a + i < (v + n) * s /\ (a + i) - v * s = o + i
  BY ONLY <1>1, <1>2, <1>3, <1>4, o \in Nat, m \in Nat, a \in Nat
<1>6. Page(a + i) \in v..(v + n - 1)
  BY <1>1, <1>5, PagesAreAddresses
<1>7. PagesOf(h) = v..(v + n - 1) /\ v =< Page(a + i)
  BY <1>1, <1>6 DEF PagesOf
<1> QED BY <1>1, <1>5, <1>6, <1>7

LEMMA SegmentSeen ==
  ASSUME UserInv, page_allocs # <<>>, op.call = "none", calls = 0, WellFormed, NEW j \in Segments
  PROVE  LET h == elf.headers[j]
         IN  /\ \A i \in 0..(h.p_memsz - 1) :
                  /\ Mapped(h.v_addr + i)
                  /\ elf.endian = 1 => pt[Page(h.v_addr + i)].right = Right(h.p_flags)
             /\ \A i \in 0..(h.p_filesz - 1) : View(phys, h.v_addr + i) = ByteAt(h.p_offset + i)
<1>1. Types /\ LoadOK /\ Parse(file).ok
  BY DEF UserInv, LoadOK
<1>2. PICK N \in Nat : HeadersAre(N)
  BY <1>1, HeadersExist
<1>3. prog = <<>>
  BY <1>1 DEF LoadOK, LoadOp
<1>4. j \in 1..N /\ 1..Passed = 1..N
  BY <1>2, <1>3 DEF HeadersAre, Segments, Passed
<1>5. PICK g : g = Headers[j] /\ HeaderOK(g) /\ SameHeader(g, elf.headers[j], elf.endian)
  BY <1>2, <1>4 DEF HeadersAre
<1>6. g.p_type = PT_LOAD
  BY <1>5 DEF SameHeader, Segments
<1>7. Fits(g) /\ Loaded(g)
  <2>1. Loaded(g)
    BY <1>1, <1>4, <1>5, <1>6 DEF LoadOK
  <2> QED BY <1>2, <1>4, <1>5, <1>6, <2>1, WellFormedHeaders
<1>8. PICK q \in Nat :
        /\ \A v \in PagesOf(g) :
             /\ v \in DOMAIN pt
             /\ pt[v] = [p_page |-> q + (v - Page(g.v_addr)), right |-> Right(g.p_flags)]
        /\ \A i \in 0..(g.p_filesz - 1) :
             phys[(q * PAGE_SIZE + Offset(g.v_addr)) + i] = ByteAt(g.p_offset + i)
  BY <1>7 DEF Loaded
<1>9. ASSUME NEW i \in 0..(g.p_memsz - 1)
      PROVE  /\ Mapped(g.v_addr + i) /\ pt[Page(g.v_addr + i)].right = Right(g.p_flags)
             /\ Phys(g.v_addr + i) = (q * PAGE_SIZE + Offset(g.v_addr)) + i
  <2>1. PICK a \in Nat, v \in Nat, o \in Nat :
          /\ a = g.v_addr + i /\ v = Page(g.v_addr) /\ o = Offset(g.v_addr)
          /\ Page(a) \in PagesOf(g) /\ v =< Page(a) /\ a - v * PAGE_SIZE = o + i
    <3>1. g.v_addr \in Nat
      BY <1>5 DEF HeaderOK
    <3>2. Offset(g.v_addr) \in Nat
      BY <3>1, OffsetNat
    <3> QED BY <1>5, <1>7, <3>2, ByteInPages
  <2>2. /\ Page(a) \in DOMAIN pt
        /\ pt[Page(a)] = [p_page |-> q + (Page(a) - v), right |-> Right(g.p_flags)]
    BY <1>8, <2>1
  <2>3. Phys(a) = (q + (Page(a) - v)) * PAGE_SIZE + Offset(a)
    BY <2>2 DEF Phys
  <2>4. (q + (Page(a) - v)) * PAGE_SIZE + Offset(a) = q * PAGE_SIZE + (a - v * PAGE_SIZE)
    BY <2>1, ByteOfPage
  <2>5. q * PAGE_SIZE + (o + i) = (q * PAGE_SIZE + o) + i
    <3>1. q * PAGE_SIZE \in Nat
      BY PageSize, TimesNat
    <3>2. i \in Nat
      BY <1>5 DEF HeaderOK
    <3> QED BY <3>1, <3>2
  <2> QED BY <2>1, <2>2, <2>3, <2>4, <2>5 DEF Mapped
<1>10. ASSUME NEW i \in 0..(g.p_filesz - 1) PROVE View(phys, g.v_addr + i) = ByteAt(g.p_offset + i)
  <2>1. i \in 0..(g.p_memsz - 1)
    BY <1>5, <1>7 DEF Fits, HeaderOK
  <2> QED BY <1>8, <1>9, <2>1 DEF View
<1> QED BY <1>5, <1>9, <1>10 DEF SameHeader

LEMMA InvImage == UserInv => LoadedImage
<1> SUFFICES ASSUME UserInv PROVE LoadedImage
  OBVIOUS
<1>1. ASSUME page_allocs # <<>>
      PROVE  \A i \in 1..(USER_STACK_PAGES * PAGE_SIZE) : Mapped(context.sp - i)
  <2>1. Types /\ TableOK /\ LoadOK
    BY DEF UserInv
  <2>2. 1 \in DOMAIN page_allocs
    BY <1>1, <2>1 DEF Types
  <2>3. PICK x \in Alloc, v \in Nat, u \in Nat, s \in Nat :
          x = page_allocs[1] /\ v = x.v_page /\ u = x.v_pages /\ u = USER_STACK_PAGES /\ s = PAGE_SIZE
    <3>1. page_allocs[1] \in Alloc /\ page_allocs[1].v_pages = USER_STACK_PAGES
      BY <1>1, <2>1, <2>2, AllocType DEF LoadOK
    <3> QED BY <3>1, AllocFields, PageSize
  <2>4. context.sp = (v + u) * s
    BY <1>1, <2>1, <2>3 DEF LoadOK
  <2>5. v * s \in Nat /\ u * s \in Nat /\ (v + u) * s = v * s + u * s
    BY TimesNat, TimesAdd
  <2>6. ASSUME NEW i \in 1..(u * s) PROVE Mapped((v + u) * s - i)
    <3>1. PICK a \in Nat : a = (v + u) * s - i /\ v * s =< a /\ a < (v + u) * s
      <4>1. /\ (v + u) * s - i \in Nat /\ v * s =< (v + u) * s - i
            /\ (v + u) * s - i < (v + u) * s
        BY ONLY <2>5, <2>6
      <4> QED BY ONLY <4>1
    <3>2. InAlloc(page_allocs[1], a)
      BY <2>3, <3>1 DEF InAlloc
    <3> QED BY <2>1, <2>2, <3>1, <3>2, MappedInAlloc
  <2> QED BY <2>3, <2>4, <2>6
<1>2. page_allocs # <<>> => context.entry = elf.entry
  BY DEF UserInv, LoadOK
<1> QED BY <1>1, <1>2, InvTypes, SegmentSeen DEF LoadedImage

LEMMA Invariance == Spec => []UserInv
BY InitHolds, StepKeeps, PTL DEF Spec

(* A program that is well formed is loaded as its headers ask: after        *)
(* create_from_elf it sees every segment at its address, with its rights    *)
(* and the file's bytes, and has a stack below sp.                          *)
THEOREM Image == Spec => []LoadedImage
BY Invariance, InvImage, PTL

(* copy_from_user, copy_to_user and copy_user_string reach through          *)
(* page_allocs what the program sees through its page table, as far as it   *)
(* is mapped, and change nothing else.                                      *)
THEOREM Copies == Spec => []SameMemory
BY Invariance, InvCopies, PTL
=============================================================================
