--------------------------- MODULE ScheduleProofs ---------------------------
(***************************************************************************)
(* Facts about the calendar arithmetic, the table operators and the two     *)
(* loops over the table, for every calendar and every table size; and about *)
(* the app's schedule page and the table it edits.                         *)
(***************************************************************************)
EXTENDS NearestLoop, DeleteLoop, ScheduleApp, SequenceTheorems, WellFoundedInduction, TLAPS

(* Every set of natural numbers that is not empty has a least element. *)
LEMMA LeastNatural ==
  ASSUME NEW T, T \subseteq Nat, T # {}
  PROVE  \E x \in T : \A y \in T : x <= y
<1> DEFINE R == OpToRel(<, Nat)
<1>1. IsWellFoundedOn(R, Nat)
  BY NatLessThanWellFounded
<1>2. \E x \in T : \A y \in T : ~(<<y, x>> \in R)
  <2> HIDE DEF R
  <2> QED BY <1>1, WFMin
<1>3. \A x, y \in T : y < x => <<y, x>> \in R
  BY DEF OpToRel
<1> HIDE DEF R
<1>4. PICK x \in T : \A y \in T : ~(<<y, x>> \in R)
  BY <1>2
<1>5. \A y \in T : x <= y
  <2> TAKE y \in T
  <2>1. ~(y < x)
    BY <1>3, <1>4
  <2>2. x \in Nat /\ y \in Nat
    OBVIOUS
  <2> QED BY <2>1, <2>2
<1> QED BY <1>5

-----------------------------------------------------------------------------
(* The calendar.                                                           *)

LEMMA ProductPositive ==
  ASSUME NEW a \in Nat, NEW b \in Nat, a > 0, b > 0
  PROVE  a * b \in Nat /\ a * b > 0
OBVIOUS

LEMMA CalendarTypes ==
  /\ MINS * SECS \in Nat /\ MINS * SECS > 0
  /\ DAY \in Nat /\ DAY > 0
  /\ WEEK \in Nat /\ WEEK > 0
<1>1. HOURS * MINS \in Nat /\ HOURS * MINS > 0
  BY CalendarAssumption, ProductPositive
<1>2. MINS * SECS \in Nat /\ MINS * SECS > 0
  BY CalendarAssumption, ProductPositive
<1>3. DAY \in Nat /\ DAY > 0
  BY <1>1, CalendarAssumption, ProductPositive DEF DAY
<1>4. WEEK \in Nat /\ WEEK > 0
  BY <1>3, CalendarAssumption, ProductPositive DEF WEEK
<1> QED BY <1>2, <1>3, <1>4

LEMMA RemainderType ==
  ASSUME NEW a \in Int, NEW b \in Nat, b > 0
  PROVE  a % b \in 0..(b - 1)
OBVIOUS

LEMMA QuotientType ==
  ASSUME NEW a \in Int, NEW b \in Nat, b > 0
  PROVE  a \div b \in Int
OBVIOUS

LEMMA ProductMonotone ==
  ASSUME NEW a \in Int, NEW b \in Int, NEW c \in Nat, a <= b
  PROVE  a * c <= b * c
OBVIOUS

(* A quotient counts whole parts: it stays below the number of parts. *)
LEMMA QuotientBound ==
  ASSUME NEW n \in Nat, n > 0, NEW b \in Nat, b > 0, NEW x \in 0..(n * b - 1)
  PROVE  x \div b \in 0..(n - 1)
<1> DEFINE q == x \div b
<1>0. n * b \in Nat /\ x \in Nat
  BY ProductPositive
<1>1. q \in Int /\ x % b \in 0..(b - 1) /\ x = b * q + (x % b)
  BY <1>0
<1> HIDE DEF q
<1>2. q >= 0
  <2> SUFFICES ASSUME q <= -1 PROVE FALSE
    BY <1>1
  <2>1. q * b <= (-1) * b
    BY <1>1, ProductMonotone
  <2> QED BY <1>0, <1>1, <2>1
<1>3. q <= n - 1
  <2> SUFFICES ASSUME n <= q PROVE FALSE
    BY <1>1
  <2>1. n * b <= q * b
    BY <1>1, ProductMonotone
  <2>2. x >= b * q
    BY <1>0, <1>1
  <2>3. b * q = q * b
    BY <1>1
  <2> QED BY <1>0, <1>1, <2>1, <2>2, <2>3
<1> QED BY <1>1, <1>2, <1>3 DEF q

LEMMA FieldTypes ==
  ASSUME NEW t \in Instants
  PROVE  /\ Wday(t) \in Weekdays
         /\ Hour(t) \in 0..(HOURS - 1)
         /\ Minute(t) \in 0..(MINS - 1)
         /\ Second(t) \in 0..(SECS - 1)
<1>0. t \in Int
  BY CalendarTypes DEF Instants
<1>1. Wday(t) \in Weekdays
  BY CalendarTypes, CalendarAssumption, QuotientBound DEF Wday, Weekdays, Instants, WEEK
<1>2. Hour(t) \in 0..(HOURS - 1)
  <2>1. t % DAY \in 0..(DAY - 1)
    BY <1>0, CalendarTypes, RemainderType
  <2>2. DAY = HOURS * (MINS * SECS)
    BY CalendarAssumption DEF DAY
  <2>3. t % DAY \in 0..(HOURS * (MINS * SECS) - 1)
    BY <2>1, <2>2
  <2> QED BY <2>3, CalendarTypes, CalendarAssumption, QuotientBound DEF Hour
<1>3. Minute(t) \in 0..(MINS - 1)
  <2>1. t % (MINS * SECS) \in 0..(MINS * SECS - 1)
    BY <1>0, CalendarTypes, RemainderType
  <2> QED BY <2>1, CalendarAssumption, QuotientBound DEF Minute
<1>4. Second(t) \in 0..(SECS - 1)
  BY <1>0, CalendarAssumption, RemainderType DEF Second
<1> QED BY <1>1, <1>2, <1>3, <1>4

LEMMA AtType ==
  ASSUME NEW d \in Nat, NEW h \in Nat, NEW m \in Nat
  PROVE  At(d, h, m) \in Nat
<1>1. d * HOURS + h \in Nat
  BY CalendarAssumption
<1>2. (d * HOURS + h) * MINS + m \in Nat
  BY <1>1, CalendarAssumption
<1> QED BY <1>2, CalendarAssumption DEF At

(* calc_delay_to_event_ms: no field is left negative by its borrows, so the  *)
(* delay is a number that falls below zero by less than a minute.            *)
LEMMA CalcDelayType ==
  ASSUME NEW day \in Weekdays, NEW hour \in 0..(HOURS - 1),
         NEW min \in 0..(MINS - 1), NEW t \in Instants
  PROVE  /\ CalcDelay(day, hour, min, t) \in Int
         /\ CalcDelay(day, hour, min, t) + SECS \in Nat
<1> DEFINE mins  == min - Minute(t)
           hours == hour - Hour(t) - (IF mins < 0 THEN 1 ELSE 0)
           ahead == (day - Wday(t) + DAYS) % DAYS
           days  == ahead - (IF hours < 0 THEN 1 ELSE 0)
<1>1. mins \in Int /\ Wrap(mins, MINS) \in Nat
  BY FieldTypes, CalendarAssumption DEF Wrap
<1>2. hours \in Int /\ Wrap(hours, HOURS) \in Nat
  <2> HIDE DEF mins
  <2> QED BY FieldTypes, <1>1, CalendarAssumption DEF Wrap
<1>3. ahead \in 0..(DAYS - 1)
  <2>1. day - Wday(t) + DAYS \in Int
    BY FieldTypes, CalendarAssumption DEF Weekdays
  <2> QED BY <2>1, CalendarAssumption, RemainderType
<1>4. days \in Int /\ Wrap(days, DAYS) \in Nat
  <2> HIDE DEF hours, ahead
  <2> QED BY <1>2, <1>3, CalendarAssumption DEF Wrap
<1>5. At(Wrap(days, DAYS), Wrap(hours, HOURS), Wrap(mins, MINS)) \in Nat
  <2> HIDE DEF days, hours, mins
  <2> QED BY <1>1, <1>2, <1>4, AtType
<1>6. CalcDelay(day, hour, min, t) =
        At(Wrap(days, DAYS), Wrap(hours, HOURS), Wrap(mins, MINS)) - Second(t)
  BY DEF CalcDelay
<1> HIDE DEF days, hours, mins
<1> QED BY <1>5, <1>6, FieldTypes, CalendarAssumption

(* Quotient and remainder are the only ones of their kind. *)
LEMMA DivisionUnique ==
  ASSUME NEW b \in Nat, b > 0, NEW q \in Int, NEW r \in 0..(b - 1),
         NEW a \in Int, a = q * b + r
  PROVE  a % b = r /\ a \div b = q
<1> DEFINE p == a \div b
           s == a % b
<1>1. p \in Int /\ s \in 0..(b - 1) /\ a = b * p + s
  OBVIOUS
<1> HIDE DEF p, s
<1>2. p = q
  <2>1. ~(p + 1 <= q)
    <3> SUFFICES ASSUME p + 1 <= q PROVE FALSE
      OBVIOUS
    <3>1. (p + 1) * b <= q * b
      BY <1>1, ProductMonotone
    <3> QED BY <1>1, <3>1
  <2>2. ~(q + 1 <= p)
    <3> SUFFICES ASSUME q + 1 <= p PROVE FALSE
      OBVIOUS
    <3>1. (q + 1) * b <= p * b
      BY <1>1, ProductMonotone
    <3> QED BY <1>1, <3>1
  <2> QED BY <1>1, <2>1, <2>2
<1>3. s = r
  BY <1>1, <1>2
<1> QED BY <1>2, <1>3 DEF p, s

(* Whole turns do not show in a remainder. *)
LEMMA WholeTurns ==
  ASSUME NEW n \in Nat, n > 0, NEW a \in Int, NEW k \in Int
  PROVE  (a + k * n) % n = a % n
<1> DEFINE q == a \div n
           r == a % n
<1>1. q \in Int /\ r \in 0..(n - 1) /\ a = n * q + r
  OBVIOUS
<1> HIDE DEF q, r
<1>2. a + k * n = (q + k) * n + r /\ a + k * n \in Int
  BY <1>1
<1>3. (a + k * n) % n = r
  BY <1>1, <1>2, DivisionUnique
<1> QED BY <1>3 DEF r

LEMMA SmallRemainder ==
  ASSUME NEW n \in Nat, n > 0, NEW a \in 0..(n - 1)
  PROVE  a % n = a
<1>1. a = 0 * n + a
  OBVIOUS
<1> QED BY <1>1, DivisionUnique

(* A remainder inside a remainder. *)
LEMMA RemainderOfSum ==
  ASSUME NEW n \in Nat, n > 0, NEW a \in Int, NEW b \in Int
  PROVE  ((a % n) + b) % n = (a + b) % n
<1> DEFINE q == a \div n
           r == a % n
<1>1. q \in Int /\ r \in 0..(n - 1) /\ a = n * q + r
  OBVIOUS
<1> HIDE DEF q, r
<1>2. a + b = (r + b) + q * n /\ r + b \in Int
  BY <1>1
<1>3. (a + b) % n = (r + b) % n
  BY <1>1, <1>2, WholeTurns
<1> QED BY <1>3 DEF r

LEMMA RemainderOfDifference ==
  ASSUME NEW n \in Nat, n > 0, NEW a \in Int, NEW b \in Int
  PROVE  (b - (a % n)) % n = (b - a) % n
<1> DEFINE q == a \div n
           r == a % n
<1>1. q \in Int /\ r \in 0..(n - 1) /\ a = n * q + r
  OBVIOUS
<1> HIDE DEF q, r
<1>2. b - a = (b - r) + (-q) * n /\ b - r \in Int /\ -q \in Int
  BY <1>1
<1>3. (b - a) % n = (b - r) % n
  BY <1>1, <1>2, WholeTurns
<1> QED BY <1>3 DEF r

LEMMA Distribute ==
  ASSUME NEW a \in Int, NEW b \in Int, NEW c \in Int
  PROVE  /\ (a + b) * c = a * c + b * c
         /\ (a - b) * c = a * c - b * c
         /\ a * b * c = a * (b * c)
         /\ a * c \in Int
OBVIOUS

(* An instant of the week, and an instant of the day, in seconds. *)
LEMMA AtSum ==
  ASSUME NEW d \in Int, NEW h \in Int, NEW m \in Int
  PROVE  /\ At(d, h, m) = d * DAY + h * (MINS * SECS) + m * SECS
         /\ At(d, h, m) = d * DAY + At(0, h, m)
         /\ At(d, h, m) \in Int
<1>1. At(d, h, m) = d * (HOURS * (MINS * SECS)) + h * (MINS * SECS) + m * SECS
  <2>1. d * HOURS \in Int /\ (d * HOURS + h) * MINS = d * HOURS * MINS + h * MINS
    BY CalendarAssumption, Distribute
  <2>2. /\ d * HOURS * MINS \in Int /\ h * MINS \in Int
        /\ (d * HOURS * MINS + h * MINS + m) * SECS
             = d * HOURS * MINS * SECS + h * MINS * SECS + m * SECS
    BY <2>1, CalendarAssumption, Distribute
  <2>3. d * HOURS * MINS * SECS = d * (HOURS * (MINS * SECS))
    BY <2>1, CalendarAssumption, Distribute
  <2>4. h * MINS * SECS = h * (MINS * SECS)
    BY CalendarAssumption, Distribute
  <2> QED BY <2>1, <2>2, <2>3, <2>4 DEF At
<1>2. DAY = HOURS * (MINS * SECS) /\ DAY \in Nat
  BY CalendarTypes, CalendarAssumption DEF DAY
<1>3. At(0, h, m) = h * (MINS * SECS) + m * SECS
  <2>1. (0 * HOURS + h) = h
    BY CalendarAssumption
  <2> QED BY <2>1, CalendarAssumption, Distribute DEF At
<1>4. d * DAY \in Int /\ h * (MINS * SECS) \in Int /\ m * SECS \in Int
  BY <1>2, CalendarTypes, CalendarAssumption, Distribute
<1> QED BY <1>1, <1>2, <1>3, <1>4

(* The seconds of the week that come before a minute of it begins, and the  *)
(* minute that lies behind them, fill the week.                             *)
LEMMA AtRange ==
  ASSUME NEW d \in Weekdays, NEW h \in 0..(HOURS - 1), NEW m \in 0..(MINS - 1)
  PROVE  /\ At(d, h, m) \in 0..(WEEK - SECS)
         /\ At(0, h, m) \in 0..(DAY - SECS)
         /\ At(d, h, m) \in Instants
<1>0. d \in Nat /\ h \in Nat /\ m \in Nat
  BY CalendarAssumption DEF Weekdays
<1>1. m * SECS <= MINS * SECS - SECS
  <2>1. m * SECS <= (MINS - 1) * SECS
    BY <1>0, CalendarAssumption, ProductMonotone
  <2> QED BY <2>1, CalendarAssumption
<1>2. h * (MINS * SECS) <= DAY - MINS * SECS
  <2> DEFINE M == MINS * SECS
  <2>1. M \in Nat
    BY CalendarTypes
  <2> HIDE DEF M
  <2>2. h * M <= (HOURS - 1) * M
    BY <1>0, <2>1, CalendarAssumption, ProductMonotone
  <2>3. (HOURS - 1) * M = HOURS * M - M
    BY <2>1, CalendarAssumption
  <2>4. DAY = HOURS * M
    BY CalendarAssumption DEF DAY, M
  <2> QED BY <2>2, <2>3, <2>4 DEF M
<1>3. d * DAY <= WEEK - DAY
  <2> DEFINE M == DAY
  <2>1. M \in Nat
    BY CalendarTypes
  <2> HIDE DEF M
  <2>2. d * M <= (DAYS - 1) * M
    BY <1>0, <2>1, CalendarAssumption, ProductMonotone DEF Weekdays
  <2>3. (DAYS - 1) * M = DAYS * M - M
    BY <2>1, CalendarAssumption
  <2> QED BY <2>2, <2>3 DEF M, WEEK
<1>4. At(d, h, m) \in Nat /\ At(0, h, m) \in Nat
  BY <1>0, AtType
<1>5. /\ At(d, h, m) = d * DAY + At(0, h, m)
      /\ At(0, h, m) = 0 * DAY + h * (MINS * SECS) + m * SECS
  BY <1>0, AtSum
<1>6. At(0, h, m) <= DAY - SECS
  <2>1. 0 * DAY = 0
    BY CalendarTypes
  <2> DEFINE x == h * (MINS * SECS)
             y == m * SECS
             z == MINS * SECS
  <2>2. x \in Int /\ y \in Int /\ z \in Int
    BY <1>0, CalendarTypes, CalendarAssumption
  <2>3. At(0, h, m) = x + y /\ x <= DAY - z /\ y <= z - SECS
    BY <1>1, <1>2, <1>5, <2>1, <2>2
  <2> HIDE DEF x, y, z
  <2> QED BY <2>2, <2>3, CalendarTypes, CalendarAssumption
<1>7. d * DAY \in Int
  BY <1>0, CalendarTypes
<1> QED BY <1>3, <1>4, <1>5, <1>6, <1>7, CalendarTypes, CalendarAssumption DEF Instants

(* What localtime shows determines the instant. *)
LEMMA FieldsOfInstant ==
  ASSUME NEW t \in Instants
  PROVE  t = At(Wday(t), Hour(t), Minute(t)) + Second(t)
<1> DEFINE M == MINS * SECS
           w == Wday(t)
           u == t % DAY
           h == Hour(t)
           v == u % M
           m == Minute(t)
<1>0. /\ t \in Int /\ M \in Nat /\ M > 0 /\ DAY = HOURS * M
      /\ DAY \in Nat /\ DAY > 0
  BY CalendarTypes, CalendarAssumption DEF Instants, DAY
<1>1. w \in Int /\ u \in 0..(DAY - 1) /\ t = DAY * w + u
  BY <1>0 DEF Wday
<1>2. h \in Int /\ v \in 0..(M - 1) /\ u = M * h + v
  <2>1. h = u \div M
    BY DEF Hour
  <2> HIDE DEF M, h, u
  <2> QED BY <1>0, <1>1, <2>1
<1>3. t % M = v
  <2> HIDE DEF M, w, u, h, v
  <2>1. DAY * w = (w * HOURS) * M /\ M * h = h * M
    BY <1>0, <1>1, <1>2, CalendarAssumption, Distribute
  <2>2. t = (w * HOURS) * M + h * M + v /\ w * HOURS \in Int
    BY <1>0, <1>1, <1>2, <2>1, CalendarAssumption
  <2>3. t = (w * HOURS + h) * M + v /\ w * HOURS + h \in Int
    BY <1>0, <1>2, <2>2, Distribute
  <2> DEFINE q == w * HOURS + h
  <2>4. q \in Int /\ t = q * M + v
    BY <2>3
  <2>5. M \in Nat /\ M > 0 /\ t \in Int
    BY <1>0
  <2> HIDE DEF q
  <2> QED BY <1>2, <2>4, <2>5, DivisionUnique
<1>4. m \in Int /\ v % SECS \in 0..(SECS - 1) /\ v = SECS * m + (v % SECS)
  <2>1. m = v \div SECS
    BY <1>3 DEF Minute
  <2> HIDE DEF v, m
  <2> QED BY <1>0, <1>2, <2>1, CalendarAssumption
<1>5. t % SECS = v % SECS
  <2> HIDE DEF w, u, h, v, m
  <2> DEFINE s == v % SECS
             p == (w * HOURS + h) * MINS + m
  <2>1. s \in Int /\ p \in Int
    BY <1>1, <1>2, <1>4, CalendarAssumption
  <2>2. t = p * SECS + s
    <3> HIDE DEF s
    <3>1. DAY * w = (w * HOURS * MINS) * SECS
      BY <1>0, <1>1, CalendarAssumption, Distribute
    <3>2. M * h = (h * MINS) * SECS
      BY <1>0, <1>2, CalendarAssumption, Distribute
    <3>3. p = w * HOURS * MINS + h * MINS + m
      BY <1>1, <1>2, <1>4, CalendarAssumption, Distribute
    <3>4. w * HOURS * MINS \in Int /\ h * MINS \in Int
      BY <1>1, <1>2, CalendarAssumption
    <3> HIDE DEF p
    <3>5. p * SECS = (w * HOURS * MINS) * SECS + (h * MINS) * SECS + m * SECS
      BY <1>4, <3>3, <3>4, CalendarAssumption, Distribute
    <3>6. SECS * m = m * SECS
      BY <1>4, CalendarAssumption
    <3>7. v = SECS * m + s
      BY <1>4 DEF s
    <3>8. t = DAY * w + M * h + SECS * m + s
      <4> DEFINE x == DAY * w
                 y == M * h
                 z == SECS * m
      <4>1. x \in Int /\ y \in Int /\ z \in Int
        BY <1>0, <1>1, <1>2, <1>4, CalendarAssumption
      <4> HIDE DEF x, y, z
      <4>2. t = x + u /\ u = y + v /\ v = z + s
        BY <1>1, <1>2, <3>7 DEF x, y, z
      <4>3. t = x + y + z + s
        BY <1>1, <1>2, <2>1, <4>1, <4>2
      <4> QED BY <4>3 DEF x, y, z
    <3> QED BY <3>1, <3>2, <3>5, <3>6, <3>8
  <2> HIDE DEF p, s
  <2>3. s \in 0..(SECS - 1)
    BY <1>4 DEF s
  <2>4. t % SECS = s
    BY <1>0, <2>1, <2>2, <2>3, CalendarAssumption, DivisionUnique
  <2> QED BY <2>4 DEF s
<1>6. At(w, h, m) = w * DAY + h * M + m * SECS
  BY <1>1, <1>2, <1>4, AtSum
<1> HIDE DEF M, w, u, h, v, m
<1>7. w * DAY = DAY * w /\ h * M = M * h /\ m * SECS = SECS * m
  BY <1>0, <1>1, <1>2, <1>4, CalendarAssumption
<1>8. t = At(w, h, m) + (t % SECS)
  <2> DEFINE x == DAY * w
             y == M * h
             z == SECS * m
             s == v % SECS
  <2>1. x \in Int /\ y \in Int /\ z \in Int
    BY <1>0, <1>1, <1>2, <1>4, CalendarAssumption
  <2>2. t = x + u /\ u = y + v /\ v = z + s /\ s \in Int
    BY <1>1, <1>2, <1>4
  <2>3. At(w, h, m) = x + y + z /\ t % SECS = s
    BY <1>5, <1>6, <1>7
  <2> HIDE DEF x, y, z, s
  <2> QED BY <1>0, <1>1, <1>2, <2>1, <2>2, <2>3
<1> QED BY <1>8 DEF w, h, m, Second


(* A borrow adds the number of parts once, or not at all. *)
LEMMA WrapBorrow ==
  ASSUME NEW x \in Int, NEW n \in Nat
  PROVE  /\ Wrap(x, n) = x + (IF x < 0 THEN 1 ELSE 0) * n
         /\ x \in (-n)..(n - 1) => Wrap(x, n) \in 0..(n - 1)
BY DEF Wrap

(* calc_delay_to_event_ms: the borrows of its fields cancel, and what is     *)
(* left is the time between the two instants, up to whole weeks; it is less  *)
(* than a week, and when it is negative, by less than a minute.             *)
LEMMA CalcDelayValue ==
  ASSUME NEW day \in Weekdays, NEW hour \in 0..(HOURS - 1),
         NEW min \in 0..(MINS - 1), NEW t \in Instants
  PROVE  /\ \E k \in Int : CalcDelay(day, hour, min, t) = At(day, hour, min) - t + k * WEEK
         /\ CalcDelay(day, hour, min, t) \in (1 - SECS)..(WEEK - SECS)
         /\ CalcDelay(day, hour, min, t) + Second(t) \in 0..(WEEK - SECS)
<1> DEFINE M == MINS * SECS
           mins  == min - Minute(t)
           mb    == IF mins < 0 THEN 1 ELSE 0
           hours == hour - Hour(t) - mb
           hb    == IF hours < 0 THEN 1 ELSE 0
           ahead == (day - Wday(t) + DAYS) % DAYS
           days  == ahead - hb
           db    == IF days < 0 THEN 1 ELSE 0
           Wd == Wrap(days, DAYS)
           Wh == Wrap(hours, HOURS)
           Wm == Wrap(mins, MINS)
<1>0. /\ M \in Nat /\ M = MINS * SECS /\ DAY \in Nat /\ DAY = HOURS * M
      /\ WEEK \in Nat /\ WEEK = DAYS * DAY
      /\ t \in Int /\ day \in Nat
  BY CalendarTypes, CalendarAssumption DEF Instants, Weekdays, DAY, WEEK
<1>1. /\ Wday(t) \in Weekdays /\ Wday(t) \in Int
      /\ Hour(t) \in 0..(HOURS - 1) /\ Hour(t) \in Int
      /\ Minute(t) \in 0..(MINS - 1) /\ Minute(t) \in Int
      /\ Second(t) \in 0..(SECS - 1)
  BY FieldTypes, CalendarAssumption DEF Weekdays
<1> HIDE DEF M
<1>2. /\ mb \in {0, 1} /\ mins \in Int /\ Wm \in 0..(MINS - 1)
      /\ Wm = min - Minute(t) + mb * MINS
  BY <1>1, CalendarAssumption, WrapBorrow
<1> HIDE DEF mb, Wm
<1>3. /\ hb \in {0, 1} /\ hours \in Int /\ Wh \in 0..(HOURS - 1)
      /\ Wh = hour - Hour(t) - mb + hb * HOURS
  <2> HIDE DEF mins
  <2>1. hours \in Int /\ hours \in (-HOURS)..(HOURS - 1)
    BY <1>1, <1>2, CalendarAssumption
  <2> HIDE DEF hours
  <2>2. Wh = hours + hb * HOURS /\ Wh \in 0..(HOURS - 1)
    BY <2>1, CalendarAssumption, WrapBorrow DEF Wh, hb
  <2>3. hb \in {0, 1} /\ hb * HOURS \in Int
    BY CalendarAssumption DEF hb
  <2>4. Wh = hour - Hour(t) - mb + hb * HOURS
    BY <2>2 DEF hours
  <2> QED BY <2>1, <2>2, <2>3, <2>4
<1> HIDE DEF hb, Wh
<1>4. PICK a \in {0, 1} : ahead = day - Wday(t) + a * DAYS /\ ahead \in 0..(DAYS - 1)
  <2> DEFINE x == day - Wday(t)
  <2>1. x \in Int /\ -DAYS < x /\ x < DAYS /\ ahead = (x + DAYS) % DAYS
    BY <1>1, CalendarAssumption DEF Weekdays
  <2> HIDE DEF x, ahead
  <2>2. CASE x >= 0
    <3>1. (x + 1 * DAYS) % DAYS = x % DAYS /\ x % DAYS = x
      BY <2>1, <2>2, CalendarAssumption, WholeTurns, SmallRemainder
    <3>2. ahead = x + 0 * DAYS /\ ahead \in 0..(DAYS - 1)
      BY <2>1, <2>2, <3>1, CalendarAssumption
    <3> QED BY <3>2 DEF x
  <2>3. CASE x < 0
    <3>1. (x + DAYS) % DAYS = x + DAYS
      BY <2>1, <2>3, CalendarAssumption, SmallRemainder
    <3>2. ahead = x + 1 * DAYS /\ ahead \in 0..(DAYS - 1)
      BY <2>1, <2>3, <3>1, CalendarAssumption
    <3> QED BY <3>2 DEF x
  <2> QED BY <2>1, <2>2, <2>3
<1> HIDE DEF ahead
<1>5. /\ db \in {0, 1} /\ days \in Int /\ Wd \in 0..(DAYS - 1)
      /\ Wd = day - Wday(t) - hb + (a + db) * DAYS
  <2> HIDE DEF hours
  <2>1. days \in Int /\ days \in (-DAYS)..(DAYS - 1)
    BY <1>3, <1>4, CalendarAssumption
  <2> HIDE DEF days
  <2>2. Wd = days + db * DAYS /\ Wd \in 0..(DAYS - 1)
    BY <2>1, CalendarAssumption, WrapBorrow DEF Wd, db
  <2>3. db \in {0, 1}
    BY DEF db
  <2>4. Wd = day - Wday(t) + a * DAYS - hb + db * DAYS
    <3>1. days = ahead - hb
      BY DEF days
    <3> HIDE DEF days
    <3>2. days = day - Wday(t) + a * DAYS - hb
      BY <1>0, <1>1, <1>3, <1>4, <3>1, CalendarAssumption
    <3> QED BY <2>2, <3>2
  <2>5. a * DAYS \in Int /\ db * DAYS \in Int /\ (a + db) * DAYS = a * DAYS + db * DAYS
    BY <1>4, <2>3, CalendarAssumption
  <2> QED BY <1>0, <1>1, <1>3, <2>1, <2>2, <2>3, <2>4, <2>5
<1> HIDE DEF db, Wd
<1>6. CalcDelay(day, hour, min, t) = At(Wd, Wh, Wm) - Second(t)
  BY DEF CalcDelay, Wd, Wh, Wm, days, ahead, hb, hours, mb, mins
<1>7. Wd * DAY = day * DAY - Wday(t) * DAY - hb * DAY + (a + db) * WEEK
  BY <1>0, <1>1, <1>3, <1>4, <1>5, CalendarAssumption
<1>8. Wh * M = hour * M - Hour(t) * M - mb * M + hb * DAY
  BY <1>0, <1>1, <1>2, <1>3, CalendarAssumption
<1>9. Wm * SECS = min * SECS - Minute(t) * SECS + mb * M
  BY <1>0, <1>1, <1>2, CalendarAssumption
<1>10. /\ At(Wd, Wh, Wm) = Wd * DAY + Wh * M + Wm * SECS
       /\ At(day, hour, min) = day * DAY + hour * M + min * SECS
       /\ At(Wday(t), Hour(t), Minute(t)) = Wday(t) * DAY + Hour(t) * M + Minute(t) * SECS
  <2>1. /\ Wd \in Int /\ Wh \in Int /\ Wm \in Int /\ hour \in Int /\ min \in Int
    BY <1>2, <1>3, <1>5
  <2>2. At(Wd, Wh, Wm) = Wd * DAY + Wh * M + Wm * SECS
    BY <2>1, AtSum DEF M
  <2>3. At(day, hour, min) = day * DAY + hour * M + min * SECS
    BY <1>0, <2>1, AtSum DEF M
  <2>4. At(Wday(t), Hour(t), Minute(t)) = Wday(t) * DAY + Hour(t) * M + Minute(t) * SECS
    BY <1>1, AtSum DEF M
  <2> QED BY <2>2, <2>3, <2>4
<1>11. t = At(Wday(t), Hour(t), Minute(t)) + Second(t)
  BY FieldsOfInstant
<1>12. CalcDelay(day, hour, min, t) = At(day, hour, min) - t + (a + db) * WEEK
  <2> DEFINE x1 == day * DAY
             x2 == Wday(t) * DAY
             x3 == hb * DAY
             x4 == (a + db) * WEEK
             y1 == hour * M
             y2 == Hour(t) * M
             y3 == mb * M
             z1 == min * SECS
             z2 == Minute(t) * SECS
  <2>1. /\ x1 \in Int /\ x2 \in Int /\ x3 \in Int /\ x4 \in Int
        /\ y1 \in Int /\ y2 \in Int /\ y3 \in Int /\ z1 \in Int /\ z2 \in Int
    BY <1>0, <1>1, <1>2, <1>3, <1>4, <1>5, CalendarAssumption
  <2>2. At(Wd, Wh, Wm) = (x1 - x2 - x3 + x4) + (y1 - y2 - y3 + x3) + (z1 - z2 + y3)
    BY <1>7, <1>8, <1>9, <1>10
  <2>3. At(day, hour, min) = x1 + y1 + z1 /\ t = x2 + y2 + z2 + Second(t)
    BY <1>10, <1>11
  <2> HIDE DEF x1, x2, x3, x4, y1, y2, y3, z1, z2
  <2>4. CalcDelay(day, hour, min, t) = At(day, hour, min) - t + x4
    BY <1>1, <1>6, <2>1, <2>2, <2>3, CalendarAssumption
  <2> QED BY <2>4 DEF x4
<1>13. At(Wd, Wh, Wm) \in 0..(WEEK - SECS)
  BY <1>2, <1>3, <1>5, AtRange DEF Weekdays
<1>14. CalcDelay(day, hour, min, t) \in (1 - SECS)..(WEEK - SECS)
  BY <1>0, <1>1, <1>6, <1>13, CalendarAssumption
<1>15. CalcDelay(day, hour, min, t) + Second(t) \in 0..(WEEK - SECS)
  BY <1>0, <1>1, <1>6, <1>13, CalendarAssumption
<1>16. a + db \in Int
  BY <1>4, <1>5
<1> QED BY <1>12, <1>14, <1>15, <1>16


(* The delay is the distance to the event, a number below a week; only in    *)
(* the event's own minute, when the distance to its next occurrence is more  *)
(* than a week less a minute, is it a week less. A positive delay leads to   *)
(* the very beginning of the event's minute.                                 *)
LEMMA DelayIsDistance ==
  ASSUME NEW day \in Weekdays, NEW hour \in 0..(HOURS - 1),
         NEW min \in 0..(MINS - 1), NEW t \in Instants
  PROVE  LET delay    == CalcDelay(day, hour, min, t)
             distance == (At(day, hour, min) - t) % WEEK
         IN  /\ distance \in 0..(WEEK - 1)
             /\ delay = IF distance <= WEEK - SECS THEN distance ELSE distance - WEEK
             /\ delay > 0 => (t + delay) % WEEK = At(day, hour, min)
<1> DEFINE delay    == CalcDelay(day, hour, min, t)
           distance == (At(day, hour, min) - t) % WEEK
           x == At(day, hour, min)
<1>0. /\ WEEK \in Nat /\ WEEK > 0 /\ t \in Int
      /\ SECS \in Nat /\ SECS > 0
      /\ x \in Int /\ x \in 0..(WEEK - SECS) /\ x \in 0..(WEEK - 1)
  BY CalendarTypes, CalendarAssumption, AtRange DEF Instants
<1>1. PICK k \in Int : delay = x - t + k * WEEK
  BY CalcDelayValue
<1>2. delay \in (1 - SECS)..(WEEK - SECS)
  BY CalcDelayValue
<1>3. distance = (x - t) % WEEK
  OBVIOUS
<1> HIDE DEF delay, distance, x
<1>4. distance \in 0..(WEEK - 1)
  BY <1>0, <1>3, RemainderType
<1>5. delay % WEEK = distance
  <2>1. x - t \in Int
    BY <1>0
  <2> QED BY <1>0, <1>1, <1>3, <2>1, WholeTurns
<1>6. CASE delay >= 0
  <2>1. delay \in 0..(WEEK - 1)
    BY <1>0, <1>2, <1>6
  <2>2. distance = delay
    BY <1>0, <1>5, <2>1, SmallRemainder
  <2>3. t + delay = x + k * WEEK
    BY <1>0, <1>1, <1>2
  <2>4. (t + delay) % WEEK = x
    BY <1>0, <2>3, WholeTurns, SmallRemainder
  <2> QED BY <1>0, <1>2, <1>4, <2>2, <2>4 DEF delay, distance, x
<1>7. CASE delay < 0
  <2>1. delay + WEEK \in 0..(WEEK - 1) /\ delay \in Int
    BY <1>0, <1>2, <1>7
  <2>2. (delay + 1 * WEEK) % WEEK = delay % WEEK
    BY <1>0, <2>1, WholeTurns
  <2>3. distance = delay + WEEK
    BY <1>0, <1>5, <2>1, <2>2, SmallRemainder
  <2>4. distance > WEEK - SECS
    BY <1>0, <1>2, <2>3
  <2> QED BY <1>0, <1>2, <1>4, <1>7, <2>3, <2>4 DEF delay, distance, x
<1> QED BY <1>0, <1>2, <1>6, <1>7

(* How far an event is that happens d days after today, at time T of the    *)
(* day, seen from time u of today: an event of today that has passed is a    *)
(* week away.                                                               *)
LEMMA DistanceAhead ==
  ASSUME NEW hour \in 0..(HOURS - 1), NEW min \in 0..(MINS - 1),
         NEW t \in Instants, NEW d \in Weekdays
  PROVE  LET T == At(0, hour, min)
             u == t % DAY
             distance == (At(DayAhead(d, t), hour, min) - t) % WEEK
         IN  /\ u \in 0..(DAY - 1) /\ T \in 0..(DAY - 1)
             /\ distance = d * DAY + T - u + (IF d = 0 /\ T < u THEN WEEK ELSE 0)
<1> DEFINE T == At(0, hour, min)
           u == t % DAY
           w == Wday(t)
           a == DayAhead(d, t)
           x == d * DAY + T - u
           q == (w + d) \div DAYS
<1>0. /\ WEEK \in Nat /\ WEEK > 0 /\ t \in Int /\ d \in Nat /\ d <= DAYS - 1
      /\ DAY \in Nat /\ DAY > 0 /\ WEEK = DAYS * DAY
  BY CalendarTypes, CalendarAssumption DEF Instants, Weekdays, WEEK
<1>1. w \in Int /\ u \in 0..(DAY - 1) /\ t = DAY * w + u
  BY <1>0 DEF Wday
<1>2. T \in 0..(DAY - 1) /\ T \in Int
  <2>1. 0 \in Weekdays
    BY CalendarAssumption DEF Weekdays
  <2> QED BY <1>0, <2>1, AtRange, CalendarAssumption
<1>3. a \in Int /\ q \in Int /\ w + d = DAYS * q + a
  <2>1. w + d \in Int
    BY <1>0, <1>1
  <2>2. a = (w + d) % DAYS
    BY DEF DayAhead
  <2> HIDE DEF w
  <2> QED BY <2>1, <2>2, CalendarAssumption
<1>4. At(a, hour, min) = a * DAY + T
  <2>1. hour \in Int /\ min \in Int
    OBVIOUS
  <2> QED BY <1>3, <2>1, AtSum
<1> HIDE DEF T, u, w, a, q
<1>5. At(a, hour, min) - t = x + (-q) * WEEK /\ x \in Int
  <2>1. a = w + d - DAYS * q
    BY <1>0, <1>1, <1>3, CalendarAssumption
  <2>2. a * DAY = w * DAY + d * DAY - DAYS * q * DAY
    BY <1>0, <1>1, <1>3, <2>1, CalendarAssumption
  <2>3. DAYS * q * DAY = q * WEEK /\ w * DAY = DAY * w /\ (-q) * WEEK = -(q * WEEK)
    BY <1>0, <1>1, <1>3, CalendarAssumption
  <2> DEFINE y == w * DAY
             z == d * DAY
             v == q * WEEK
  <2>4. y \in Int /\ z \in Int /\ v \in Int
    BY <1>0, <1>1, <1>3
  <2>5. At(a, hour, min) = y + z - v + T /\ t = y + u /\ x = z + T - u /\ (-q) * WEEK = -v
    BY <1>1, <1>4, <2>2, <2>3
  <2> HIDE DEF x, y, z, v
  <2> QED BY <1>1, <1>2, <2>4, <2>5
<1>6. (At(a, hour, min) - t) % WEEK = x % WEEK
  <2> HIDE DEF x
  <2>1. -q \in Int
    BY <1>3
  <2> QED BY <1>0, <1>5, <2>1, WholeTurns
<1>7. d * DAY <= WEEK - DAY /\ d * DAY \in Nat /\ (d # 0 => d * DAY >= DAY)
  <2>1. d * DAY <= (DAYS - 1) * DAY
    BY <1>0, CalendarAssumption, ProductMonotone
  <2>2. (DAYS - 1) * DAY = DAYS * DAY - DAY
    BY <1>0, CalendarAssumption
  <2>3. d # 0 => 1 * DAY <= d * DAY
    BY <1>0, ProductMonotone
  <2> QED BY <1>0, <2>1, <2>2, <2>3
<1> DEFINE z == d * DAY
<1>8. x = z + T - u /\ z \in Nat /\ z <= WEEK - DAY /\ (d # 0 => z >= DAY) /\ (d = 0 => z = 0)
  BY <1>0, <1>7
<1> HIDE DEF x, z
<1>9. CASE d = 0 /\ T < u
  <2>1. x + WEEK \in 0..(WEEK - 1) /\ x \in Int
    BY <1>0, <1>1, <1>2, <1>8, <1>9
  <2>2. (x + 1 * WEEK) % WEEK = x % WEEK
    BY <1>0, <2>1, WholeTurns
  <2>3. x % WEEK = x + WEEK
    BY <1>0, <2>1, <2>2, SmallRemainder
  <2> QED BY <1>1, <1>2, <1>6, <1>9, <2>3 DEF T, u, a, x
<1>10. CASE ~(d = 0 /\ T < u)
  <2>1. x \in 0..(WEEK - 1)
    BY <1>0, <1>1, <1>2, <1>8, <1>10
  <2>2. x % WEEK = x
    BY <1>0, <2>1, SmallRemainder
  <2>3. x = x + 0
    BY <1>5
  <2> QED BY <1>0, <1>1, <1>2, <1>6, <1>10, <2>2, <2>3 DEF T, u, a, x
<1> QED BY <1>9, <1>10

-----------------------------------------------------------------------------
(* The table.                                                              *)

LEMMA TransferDataType ==
  ASSUME NEW e \in Entry, NEW p \in Payload
  PROVE  TransferData(e, p) \in Entry
<1>1. \A f \in TimeFields : f \in Stored(p) => p[f] < Limit[f]
  BY DEF Stored, TimeFields, Position
<1>2. /\ "hour_on" \in Stored(p) => p.hour_on \in 0..(HOURS - 1)
      /\ "minute_on" \in Stored(p) => p.minute_on \in 0..(MINS - 1)
      /\ "hour_off" \in Stored(p) => p.hour_off \in 0..(HOURS - 1)
      /\ "minute_off" \in Stored(p) => p.minute_off \in 0..(MINS - 1)
  BY <1>1, CalendarAssumption DEF Payload, Limit, TimeFields
<1>3. (e.is_valid \/ Accepted(p)) \in BOOLEAN /\ (e.is_on \/ Accepted(p)) \in BOOLEAN
  OBVIOUS
<1>4. p.days_of_week \in SUBSET Weekdays
  BY DEF Payload
<1> DEFINE h1 == IF "hour_on" \in Stored(p) THEN p.hour_on ELSE e.hour_on
           m1 == IF "minute_on" \in Stored(p) THEN p.minute_on ELSE e.minute_on
           h2 == IF "hour_off" \in Stored(p) THEN p.hour_off ELSE e.hour_off
           m2 == IF "minute_off" \in Stored(p) THEN p.minute_off ELSE e.minute_off
           dw == IF Accepted(p) THEN p.days_of_week ELSE e.days_of_week
           va == e.is_valid \/ Accepted(p)
           on == e.is_on \/ Accepted(p)
<1>5. /\ h1 \in 0..(HOURS - 1) /\ m1 \in 0..(MINS - 1)
      /\ h2 \in 0..(HOURS - 1) /\ m2 \in 0..(MINS - 1)
      /\ dw \in SUBSET Weekdays
  BY <1>2, <1>4 DEF Entry
<1>6. va \in BOOLEAN /\ on \in BOOLEAN
  BY <1>3
<1>7. TransferData(e, p) =
        [e EXCEPT !.hour_on = h1, !.minute_on = m1, !.hour_off = h2,
                  !.minute_off = m2, !.days_of_week = dw,
                  !.is_valid = va, !.is_on = on]
  BY DEF TransferData
<1> HIDE DEF h1, m1, h2, m2, dw, va, on
<1>8. [e EXCEPT !.hour_on = h1, !.minute_on = m1, !.hour_off = h2,
                !.minute_off = m2, !.days_of_week = dw,
                !.is_valid = va, !.is_on = on] \in Entry
  BY <1>5, <1>6 DEF Entry
<1> QED BY <1>7, <1>8

(* What transfer_data_to_entry stores of a payload in range, and of one that  *)
(* is not.                                                                  *)
LEMMA TransferDataStores ==
  ASSUME NEW e \in Entry, NEW p \in Payload
  PROVE  /\ Accepted(p) =>
              /\ TransferData(e, p).hour_on = p.hour_on
              /\ TransferData(e, p).minute_on = p.minute_on
              /\ TransferData(e, p).hour_off = p.hour_off
              /\ TransferData(e, p).minute_off = p.minute_off
              /\ TransferData(e, p).days_of_week = p.days_of_week
              /\ TransferData(e, p).is_valid /\ TransferData(e, p).is_on
         /\ ~Accepted(p) => TransferData(e, p).is_valid = e.is_valid
<1> DEFINE h1 == IF "hour_on" \in Stored(p) THEN p.hour_on ELSE e.hour_on
           m1 == IF "minute_on" \in Stored(p) THEN p.minute_on ELSE e.minute_on
           h2 == IF "hour_off" \in Stored(p) THEN p.hour_off ELSE e.hour_off
           m2 == IF "minute_off" \in Stored(p) THEN p.minute_off ELSE e.minute_off
           dw == IF Accepted(p) THEN p.days_of_week ELSE e.days_of_week
           va == e.is_valid \/ Accepted(p)
           on == e.is_on \/ Accepted(p)
<1>1. TransferData(e, p) =
        [e EXCEPT !.hour_on = h1, !.minute_on = m1, !.hour_off = h2,
                  !.minute_off = m2, !.days_of_week = dw,
                  !.is_valid = va, !.is_on = on]
  BY DEF TransferData
<1>2. Accepted(p) => /\ h1 = p.hour_on /\ m1 = p.minute_on
                     /\ h2 = p.hour_off /\ m2 = p.minute_off
                     /\ dw = p.days_of_week /\ va /\ on
  BY DEF Accepted, TimeFields
<1>3. ~Accepted(p) => (va <=> e.is_valid)
  OBVIOUS
<1>4. va \in BOOLEAN /\ e.is_valid \in BOOLEAN
  BY DEF Entry
<1> HIDE DEF h1, m1, h2, m2, dw, va, on
<1>5. /\ TransferData(e, p).hour_on = h1 /\ TransferData(e, p).minute_on = m1
      /\ TransferData(e, p).hour_off = h2 /\ TransferData(e, p).minute_off = m2
      /\ TransferData(e, p).days_of_week = dw
      /\ TransferData(e, p).is_valid = va /\ TransferData(e, p).is_on = on
  BY <1>1 DEF Entry
<1> QED BY <1>2, <1>3, <1>4, <1>5

LEMMA FirstFreeType ==
  ASSUME NEW tbl \in Tables, FreeSlots(tbl) # {}
  PROVE  /\ FirstFree(tbl) \in FreeSlots(tbl)
         /\ FirstFree(tbl) \in Slots
<1>1. FreeSlots(tbl) \subseteq Nat
  BY TableAssumption DEF FreeSlots, Slots
<1>2. \E i \in FreeSlots(tbl) : \A j \in FreeSlots(tbl) : i <= j
  BY <1>1, LeastNatural
<1> QED BY <1>2 DEF FirstFree, FreeSlots

(* The compaction loop stops: its rounds are counted by a number.            *)
LEMMA RoundsStop ==
  ASSUME NEW tbl \in Tables, NEW i \in Slots
  PROVE  /\ Rounds(tbl, i) \in 0..MAX_SCHEDULE_ENTRIES
         /\ i + Rounds(tbl, i) + 1 \in Slots
              => ~tbl[Last(i + 2 * Rounds(tbl, i) + 1)].is_valid
         /\ \A m \in 0..(Rounds(tbl, i) - 1) :
              i + m + 1 \in Slots /\ tbl[Last(i + 2 * m + 1)].is_valid
<1> DEFINE Stops(k) == i + k + 1 \in Slots => ~tbl[Last(i + 2 * k + 1)].is_valid
           T == {k \in 0..MAX_SCHEDULE_ENTRIES : Stops(k)}
<1>1. T # {} /\ T \subseteq Nat
  <2>1. i + MAX_SCHEDULE_ENTRIES + 1 \notin Slots
    BY TableAssumption DEF Slots
  <2> QED BY <2>1, TableAssumption
<1>2. PICK k \in T : \A m \in T : k <= m
  <2> HIDE DEF T
  <2> QED BY <1>1, LeastNatural
<1>3. \A m \in 0..(k - 1) : ~Stops(m)
  BY <1>2, TableAssumption
<1>4. \A m \in 0..(k - 1) :
        i + m + 1 \in Slots /\ tbl[Last(i + 2 * m + 1)].is_valid
  BY <1>3
<1> QED BY <1>2, <1>4 DEF Rounds

LEMMA DeletedType ==
  ASSUME NEW tbl \in Tables, NEW i \in Slots
  PROVE  Deleted(tbl, i) \in Tables
<1> DEFINE freed == [tbl EXCEPT ![i].is_valid = FALSE]
           k == Rounds(freed, i)
<1>1. freed \in Tables
  BY DEF Tables, Entry
<1>2. k \in 0..MAX_SCHEDULE_ENTRIES
  <2> HIDE DEF freed
  <2> QED BY <1>1, RoundsStop
<1>3. \A j \in Nat : Last(j) \in Slots
  BY TableAssumption DEF Last, Slots
<1> HIDE DEF freed, k
<1>4. \A j \in Slots :
        (IF j < i THEN freed[j]
         ELSE IF j < i + k THEN freed[Last(2 * j - i + 1)]
         ELSE freed[Last(j + k)]) \in Entry
  <2> TAKE j \in Slots
  <2>1. j >= i => 2 * j - i + 1 \in Nat
    BY DEF Slots
  <2>2. j + k \in Nat
    BY <1>2 DEF Slots
  <2>3. \A n \in Slots : freed[n] \in Entry
    BY <1>1 DEF Tables
  <2>4. CASE j < i
    BY <2>3, <2>4
  <2>5. CASE j >= i /\ j < i + k
    <3>1. freed[Last(2 * j - i + 1)] \in Entry
      BY <1>3, <2>1, <2>3, <2>5
    <3> QED BY <2>5, <3>1 DEF Slots
  <2>6. CASE j >= i + k
    <3>1. freed[Last(j + k)] \in Entry
      BY <1>3, <2>2, <2>3
    <3>2. ~(j < i) /\ ~(j < i + k)
      BY <1>2, <2>6 DEF Slots
    <3> QED BY <3>1, <3>2
  <2> QED BY <1>2, <2>4, <2>5, <2>6 DEF Slots
<1>5. Compacted(freed, i) \in Tables
  BY <1>4 DEF Compacted, Tables, k
<1> QED BY <1>5 DEF Deleted, freed

(* What a deletion at slot i leaves in slot j, with the table freed at i.     *)
LEMMA DeletedSlots ==
  ASSUME NEW tbl \in Tables, NEW i \in Slots, NEW j \in Slots
  PROVE  LET freed == [tbl EXCEPT ![i].is_valid = FALSE]
             k     == Rounds(freed, i)
         IN  /\ freed \in Tables /\ k \in Nat
             /\ j < i => Deleted(tbl, i)[j] = tbl[j]
             /\ j >= i /\ j < i + k => Deleted(tbl, i)[j] = freed[Last(2 * j - i + 1)]
             /\ j >= i + k => Deleted(tbl, i)[j] = freed[Last(j + k)]
<1> DEFINE freed == [tbl EXCEPT ![i].is_valid = FALSE]
           k == Rounds(freed, i)
<1>1. freed \in Tables
  BY DEF Tables, Entry
<1>2. k \in Nat
  <2> HIDE DEF freed
  <2> QED BY <1>1, RoundsStop
<1>3. j < i => freed[j] = tbl[j]
  BY DEF Tables, Slots
<1>4. Deleted(tbl, i)[j] = IF j < i THEN freed[j]
                           ELSE IF j < i + k THEN freed[Last(2 * j - i + 1)]
                           ELSE freed[Last(j + k)]
  BY DEF Deleted, Compacted
<1> HIDE DEF freed, k
<1> QED BY <1>1, <1>2, <1>3, <1>4 DEF freed, k, Slots

(* On a table with room, a deletion takes out its entry and keeps the others *)
(* in order ("compact the table", server_schedule.c:361).                   *)
THEOREM DeletionKeepsOthers ==
  ASSUME NEW tbl \in Tables, NEW i \in Slots,
         Compact(tbl), tbl[i].is_valid, HasRoom(tbl, i)
  PROVE  SameValid(Deleted(tbl, i), Removed(tbl, i))
<1> DEFINE freed == [tbl EXCEPT ![i].is_valid = FALSE]
           k == Rounds(freed, i)
           after == Deleted(tbl, i)
<1>1. freed \in Tables /\ k \in 0..MAX_SCHEDULE_ENTRIES
  <2>1. freed \in Tables
    BY DEF Tables, Entry
  <2> HIDE DEF freed
  <2> QED BY <2>1, RoundsStop
<1>2. /\ i + k + 1 \in Slots => ~freed[Last(i + 2 * k + 1)].is_valid
      /\ \A m \in 0..(k - 1) : i + m + 1 \in Slots /\ freed[Last(i + 2 * m + 1)].is_valid
  <2> HIDE DEF freed
  <2> QED BY <1>1, RoundsStop
<1>3. /\ \A j \in Slots : j # i => freed[j] = tbl[j]
      /\ ~freed[i].is_valid
  BY DEF Tables, Entry
<1>4. PICK f \in Slots : ~tbl[f].is_valid /\ f <= i + 3 /\ i < f
  <2>1. PICK f \in Slots : ~tbl[f].is_valid /\ f <= i + 3
    BY DEF HasRoom, FreeSlots, ValidSlots
  <2>2. ~(f < i) /\ f # i
    BY <2>1 DEF Compact
  <2> QED BY <2>1, <2>2, TableAssumption DEF Slots
<1>5. \A j \in Slots : j >= f => ~tbl[j].is_valid /\ ~freed[j].is_valid
  BY <1>3, <1>4 DEF Compact, Slots
<1>6. \A j \in Slots : /\ j < i => after[j] = tbl[j]
                       /\ j >= i /\ j < i + k => after[j] = freed[Last(2 * j - i + 1)]
                       /\ j >= i + k => after[j] = freed[Last(j + k)]
  BY DeletedSlots
<1> HIDE DEF freed, k, after
<1>7. k < 2
  <2> SUFFICES ASSUME k >= 2 PROVE FALSE
    BY <1>1
  <2>1. i + 2 \in Slots /\ freed[Last(i + 3)].is_valid
    <3>1. 1 \in 0..(k - 1)
      BY <1>1
    <3>2. i + 1 + 1 = i + 2 /\ i + 2 * 1 + 1 = i + 3
      BY TableAssumption DEF Slots
    <3> QED BY <1>2, <3>1, <3>2
  <2>2. Last(i + 3) \in Slots /\ Last(i + 3) >= f
    BY <1>4, <2>1, TableAssumption DEF Last, Slots
  <2> QED BY <1>5, <2>1, <2>2
<1>8. ASSUME NEW j \in Slots, after[j].is_valid \/ Removed(tbl, i)[j].is_valid
      PROVE  after[j] = Removed(tbl, i)[j]
  <2>1. Removed(tbl, i)[j] = IF j < i THEN tbl[j]
                             ELSE IF j + 1 \in Slots THEN tbl[j + 1]
                             ELSE [tbl[j] EXCEPT !.is_valid = FALSE]
    BY DEF Removed
  <2>2. CASE j < i
    BY <1>6, <2>1, <2>2
  <2>3. CASE j >= i /\ k = 0
    <3>1. after[j] = freed[j] /\ ~freed[j].is_valid
      <4>1. after[j] = freed[j]
        BY <1>6, <2>3, TableAssumption DEF Slots, Last
      <4>2. i + 1 \in Slots => ~freed[i + 1].is_valid
        BY <1>2, <2>3, TableAssumption DEF Slots, Last
      <4>3. j > i => i + 1 \in Slots /\ ~tbl[i + 1].is_valid
        BY <1>3, <4>2, TableAssumption DEF Slots
      <4>4. j > i + 1 => ~tbl[j].is_valid
        BY <4>3, TableAssumption DEF Slots, Compact
      <4> QED BY <1>3, <2>3, <4>1, <4>2, <4>3, <4>4 DEF Slots
    <3>2. ~Removed(tbl, i)[j].is_valid
      <4>1. j + 1 \in Slots => ~tbl[j + 1].is_valid
        <5>1. CASE j = i
          BY <1>2, <1>3, <2>3, <5>1, TableAssumption DEF Slots, Last
        <5>2. CASE j > i
          <6>1. ~tbl[j].is_valid
            BY <1>3, <3>1, <5>2 DEF Slots
          <6> QED BY <6>1, TableAssumption DEF Slots, Compact
        <5> QED BY <2>3, <5>1, <5>2 DEF Slots
      <4>2. ~[tbl[j] EXCEPT !.is_valid = FALSE].is_valid
        BY DEF Tables, Entry
      <4> QED BY <2>1, <2>3, <4>1, <4>2 DEF Slots
    <3> QED BY <1>8, <3>1, <3>2
  <2>4. CASE j >= i /\ k = 1
    <3>1. j + 1 \in Slots => after[j] = tbl[j + 1]
      <4>1. j = i => after[j] = freed[Last(i + 1)]
        BY <1>6, <2>4, TableAssumption DEF Slots
      <4>2. j > i => after[j] = freed[Last(j + 1)]
        BY <1>6, <2>4, TableAssumption DEF Slots
      <4> QED BY <1>3, <2>4, <4>1, <4>2, TableAssumption DEF Slots, Last
    <3>2. j + 1 \notin Slots => ~after[j].is_valid
      <4> SUFFICES ASSUME j + 1 \notin Slots PROVE ~after[j].is_valid
        OBVIOUS
      <4>1. j = MAX_SCHEDULE_ENTRIES - 1 /\ j > i /\ j >= f
        BY <1>2, <1>4, <2>4, TableAssumption DEF Slots
      <4>2. after[j] = freed[j]
        BY <1>6, <2>4, <4>1, TableAssumption DEF Slots, Last
      <4> QED BY <1>5, <4>1, <4>2
    <3>3. ~[tbl[j] EXCEPT !.is_valid = FALSE].is_valid
      BY DEF Tables, Entry
    <3> QED BY <1>8, <2>1, <2>4, <3>1, <3>2, <3>3 DEF Slots
  <2> QED BY <1>1, <1>7, <2>2, <2>3, <2>4 DEF Slots
<1> QED BY <1>8 DEF SameValid, after

(* Whatever its slot, a deletion from a table without gaps leaves none       *)
(* before a valid entry: schedule_get_handler still lists them all.          *)
THEOREM DeletionStaysCompact ==
  ASSUME NEW tbl \in Tables, NEW i \in Slots, Compact(tbl)
  PROVE  Compact(Deleted(tbl, i))
<1> DEFINE freed == [tbl EXCEPT ![i].is_valid = FALSE]
           k == Rounds(freed, i)
           after == Deleted(tbl, i)
<1>1. freed \in Tables /\ k \in 0..MAX_SCHEDULE_ENTRIES
  <2>1. freed \in Tables
    BY DEF Tables, Entry
  <2> HIDE DEF freed
  <2> QED BY <2>1, RoundsStop
<1>2. /\ i + k + 1 \in Slots => ~freed[Last(i + 2 * k + 1)].is_valid
      /\ \A m \in 0..(k - 1) : i + m + 1 \in Slots /\ freed[Last(i + 2 * m + 1)].is_valid
  <2> HIDE DEF freed
  <2> QED BY <1>1, RoundsStop
<1>3. /\ \A j \in Slots : j # i => freed[j] = tbl[j]
      /\ ~freed[i].is_valid
  BY DEF Tables, Entry
<1>6. \A j \in Slots : /\ j < i => after[j] = tbl[j]
                       /\ j >= i /\ j < i + k => after[j] = freed[Last(2 * j - i + 1)]
                       /\ j >= i + k => after[j] = freed[Last(j + k)]
  BY DeletedSlots
<1> HIDE DEF freed, k, after
<1>7. SUFFICES ASSUME NEW a \in Slots, NEW b \in Slots, a < b, after[b].is_valid
               PROVE  after[a].is_valid
  BY DEF Compact, after
<1>8. CASE b < i
  BY <1>6, <1>7, <1>8 DEF Slots, Compact
<1>9. CASE b >= i /\ b < i + k
  <2>1. CASE a >= i
    <3>1. a - i \in 0..(k - 1) /\ i + 2 * (a - i) + 1 = 2 * a - i + 1
      BY <1>1, <1>7, <1>9, <2>1, TableAssumption DEF Slots
    <3>2. after[a] = freed[Last(2 * a - i + 1)]
      BY <1>1, <1>6, <1>7, <1>9, <2>1 DEF Slots
    <3> QED BY <1>2, <3>1, <3>2
  <2>2. CASE a < i
    <3>1. after[a] = tbl[a]
      BY <1>6, <2>2
    <3>2. 0 \in 0..(k - 1) /\ i + 0 + 1 = i + 1 /\ i + 2 * 0 + 1 = i + 1
      BY <1>1, <1>7, <1>9 DEF Slots
    <3>3. i + 1 \in Slots /\ freed[i + 1].is_valid
      BY <1>2, <3>2, TableAssumption DEF Slots, Last
    <3>4. tbl[i + 1].is_valid /\ a < i + 1
      BY <1>3, <3>3, <2>2 DEF Slots
    <3> QED BY <3>1, <3>3, <3>4 DEF Compact
  <2> QED BY <2>1, <2>2 DEF Slots
<1>10. CASE b >= i + k
  <2>1. after[b] = freed[Last(b + k)] /\ Last(b + k) \in Slots
    BY <1>1, <1>6, <1>10, TableAssumption DEF Slots, Last
  <2>2. tbl[Last(b + k)].is_valid /\ Last(b + k) # i
    BY <1>3, <1>7, <2>1
  <2>3. CASE a >= i + k
    <3>1. i + k + 1 \in Slots /\ b + k >= i + 2 * k + 1 /\ Last(i + 2 * k + 1) \in Slots
      BY <1>1, <1>7, <2>3, TableAssumption DEF Slots, Last
    <3>2. ~tbl[Last(i + 2 * k + 1)].is_valid
      <4>1. Last(i + 2 * k + 1) # i
        BY <1>1, <3>1, TableAssumption DEF Slots, Last
      <4> QED BY <1>2, <1>3, <3>1, <4>1
    <3>3. Last(i + 2 * k + 1) <= Last(b + k)
      BY <1>1, <3>1, TableAssumption DEF Slots, Last
    <3>4. CASE Last(i + 2 * k + 1) = Last(b + k)
      BY <2>2, <3>2, <3>4
    <3>5. CASE Last(i + 2 * k + 1) < Last(b + k)
      BY <2>1, <2>2, <3>1, <3>2, <3>5 DEF Compact
    <3> QED BY <2>1, <3>1, <3>3, <3>4, <3>5 DEF Slots
  <2>4. CASE a >= i /\ a < i + k
    <3>1. a - i \in 0..(k - 1) /\ i + 2 * (a - i) + 1 = 2 * a - i + 1
      BY <1>1, <2>4, TableAssumption DEF Slots
    <3>2. after[a] = freed[Last(2 * a - i + 1)]
      BY <1>1, <1>6, <2>4 DEF Slots
    <3> QED BY <1>2, <3>1, <3>2
  <2>5. CASE a < i
    <3>1. after[a] = tbl[a]
      BY <1>6, <2>5
    <3>2. a < Last(b + k)
      BY <1>1, <1>10, <2>5, TableAssumption DEF Slots, Last
    <3> QED BY <2>1, <2>2, <3>1, <3>2 DEF Compact
  <2> QED BY <1>1, <2>3, <2>4, <2>5 DEF Slots
<1> QED BY <1>1, <1>8, <1>9, <1>10 DEF Slots

LEMMA ToggledType ==
  ASSUME NEW tbl \in Tables, NEW i \in Slots
  PROVE  Toggled(tbl, i) \in Tables
BY DEF Toggled, Tables, Entry

LEMMA UpdateSlotType ==
  ASSUME NEW tbl \in Tables, NEW index \in Int, Updates(tbl, index)
  PROVE  UpdateSlot(tbl, index) \in Slots
BY FirstFreeType DEF Updates, UpdateSlot

LEMMA UpdatedByType ==
  ASSUME NEW tbl \in Tables, NEW body \in Body
  PROVE  UpdatedBy(tbl, body) \in Tables
<1> DEFINE i == UpdateSlot(tbl, body.index)
<1>0. body.index \in Int /\ body.payload \in Payload
  BY TableAssumption DEF Body, NewIndex, BadIndex
<1>1. CASE Updates(tbl, body.index)
  <2>1. i \in Slots
    BY <1>0, <1>1, UpdateSlotType
  <2> HIDE DEF i
  <2>2. TransferData(tbl[i], body.payload) \in Entry
    BY <1>0, <2>1, TransferDataType DEF Tables
  <2>3. [tbl EXCEPT ![i] = TransferData(tbl[i], body.payload)] \in Tables
    BY <2>1, <2>2 DEF Tables
  <2> QED BY <1>1, <2>3 DEF UpdatedBy, i
<1> QED BY <1>1 DEF UpdatedBy

(* An edit turns a table into a table. *)
LEMMA EditedType ==
  ASSUME NEW tbl \in Tables, NEW action \in Edits, NEW body \in Body
  PROVE  Edited(tbl, action, body) \in Tables
<1>1. ToggledBy(tbl, body) \in Tables
  BY ToggledType DEF ToggledBy, ValidSlots
<1>2. DeletedBy(tbl, body) \in Tables
  BY DeletedType DEF DeletedBy
<1> QED BY <1>1, <1>2, UpdatedByType DEF Edited, Edits, UPDATE, TOGGLE, DEL

LEMMA AnswerType ==
  ASSUME NEW tbl \in Tables, NEW action \in Edits, NEW body \in Body
  PROVE  Answer(tbl, action, body) \in Answers
BY DEF Answer, Answers, Edits, UPDATE, TOGGLE, DEL

-----------------------------------------------------------------------------
(* The nearest event.                                                      *)

LEMMA DayAheadType ==
  ASSUME NEW d \in Weekdays, NEW t \in Instants
  PROVE  DayAhead(d, t) \in Weekdays
<1>1. Wday(t) + d \in Int
  BY FieldTypes, CalendarAssumption DEF Weekdays
<1> QED BY <1>1, CalendarAssumption, RemainderType DEF DayAhead, Weekdays

LEMMA OffDayType ==
  ASSUME NEW e \in Entry, NEW day \in Weekdays
  PROVE  OffDay(e, day) \in Weekdays
<1>1. (day + 1) % DAYS \in Weekdays
  BY CalendarAssumption, RemainderType DEF Weekdays
<1> QED BY <1>1 DEF OffDay

LEMMA OffDelayType ==
  ASSUME NEW e \in Entry, NEW day \in Weekdays, NEW t \in Instants
  PROVE  OffDelay(e, day, t) \in Int
<1>1. e.hour_off \in 0..(HOURS - 1) /\ e.minute_off \in 0..(MINS - 1)
  BY DEF Entry
<1> QED BY <1>1, CalcDelayType DEF OffDelay

LEMMA CandidateDelayType ==
  ASSUME NEW tbl \in Tables, NEW t \in Instants, NEW c \in Candidates(tbl, t)
  PROVE  /\ c[1] \in Slots /\ c[2] \in Weekdays /\ c = <<c[1], c[2]>>
         /\ CandidateDelay(tbl, c, t) \in Int
         /\ CandidateDelay(tbl, c, t) + SECS \in Nat
<1>1. c \in Slots \X Weekdays
  BY DEF Candidates
<1>2. c[1] \in Slots /\ c[2] \in Weekdays /\ c = <<c[1], c[2]>>
  BY <1>1
<1>3. tbl[c[1]] \in Entry
  BY <1>2 DEF Tables
<1> DEFINE e == tbl[c[1]]
<1>4. e.hour_on \in 0..(HOURS - 1) /\ e.minute_on \in 0..(MINS - 1)
  BY <1>3 DEF Entry
<1>5. DayAhead(c[2], t) \in Weekdays
  BY <1>2, DayAheadType
<1>6. CandidateDelay(tbl, c, t) = CalcDelay(DayAhead(c[2], t), e.hour_on, e.minute_on, t)
  BY DEF CandidateDelay, OnDelay
<1> HIDE DEF e
<1> QED BY <1>2, <1>4, <1>5, <1>6, CalcDelayType

(* When some valid entry has a day to start on, the search has a result, and *)
(* it is a candidate that no other candidate precedes.                       *)
THEOREM NearestExists ==
  ASSUME NEW tbl \in Tables, NEW t \in Instants, HasCandidate(tbl, t)
  PROVE  /\ Nearest(tbl, t) \in Candidates(tbl, t)
         /\ IsNearest(tbl, Nearest(tbl, t), t)
<1> DEFINE C == Candidates(tbl, t)
           D(c) == CandidateDelay(tbl, c, t)
           T1 == {D(c) + SECS : c \in C}
<1>0. C # {}
  BY DEF HasCandidate
<1>1. \A c \in C : /\ c[1] \in Slots /\ c[2] \in Weekdays /\ c = <<c[1], c[2]>>
                   /\ D(c) \in Int /\ D(c) + SECS \in Nat
  BY CandidateDelayType
<1>a. \A n \in Slots : n \in Nat
  BY TableAssumption DEF Slots
<1>b. \A n \in Weekdays : n \in Nat
  BY CalendarAssumption DEF Weekdays
<1> HIDE DEF C, D
<1>2. PICK c1 \in C : \A c \in C : D(c1) <= D(c)
  <2>1. T1 # {} /\ T1 \subseteq Nat
    BY <1>0, <1>1
  <2>2. PICK m \in T1 : \A n \in T1 : m <= n
    <3> HIDE DEF T1
    <3> QED BY <2>1, LeastNatural
  <2>3. PICK c1 \in C : m = D(c1) + SECS
    BY <2>2
  <2>4. \A c \in C : D(c1) + SECS <= D(c) + SECS
    BY <2>2, <2>3
  <2>5. \A c \in C : D(c1) <= D(c)
    BY <2>4, <1>1, CalendarAssumption
  <2> QED BY <2>5
<1> DEFINE T2 == {c[1] : c \in {c \in C : D(c) = D(c1)}}
<1>3. PICK c2 \in C : D(c2) = D(c1) /\ \A c \in C : D(c) = D(c1) => c2[1] <= c[1]
  <2>1. T2 # {} /\ T2 \subseteq Nat
    BY <1>1, <1>2, <1>a
  <2>2. PICK m \in T2 : \A n \in T2 : m <= n
    <3> HIDE DEF T2
    <3> QED BY <2>1, LeastNatural
  <2> QED BY <2>2
<1> DEFINE T3 == {c[2] : c \in {c \in C : D(c) = D(c1) /\ c[1] = c2[1]}}
<1>4. PICK c3 \in C : /\ D(c3) = D(c1) /\ c3[1] = c2[1]
                      /\ \A c \in C : D(c) = D(c1) /\ c[1] = c2[1] => c3[2] <= c[2]
  <2>1. T3 # {} /\ T3 \subseteq Nat
    BY <1>1, <1>3, <1>b
  <2>2. PICK m \in T3 : \A n \in T3 : m <= n
    <3> HIDE DEF T3
    <3> QED BY <2>1, LeastNatural
  <2> QED BY <2>2
<1>5. \A b \in C : \/ D(c3) < D(b)
                   \/ D(c3) = D(b) /\ (c3[1] < b[1] \/ (c3[1] = b[1] /\ c3[2] <= b[2]))
  <2> TAKE b \in C
  <2>1. D(c3) <= D(b)
    BY <1>2, <1>4
  <2>2. D(c3) = D(b) => c3[1] <= b[1]
    BY <1>3, <1>4
  <2>3. D(c3) = D(b) /\ c3[1] = b[1] => c3[2] <= b[2]
    BY <1>4
  <2>4. /\ D(c3) \in Int /\ D(b) \in Int
        /\ c3[1] \in Nat /\ b[1] \in Nat
    BY <1>1, <1>a
  <2> QED BY <2>1, <2>2, <2>3, <2>4
<1>6. IsNearest(tbl, c3, t)
  BY <1>4, <1>5 DEF IsNearest, C, D
<1>7. \E c \in Candidates(tbl, t) : IsNearest(tbl, c, t)
  BY <1>4, <1>6 DEF C
<1> QED BY <1>7 DEF Nearest

(* Every day of the week comes up within a week. *)
LEMMA DayReached ==
  ASSUME NEW day \in Weekdays, NEW t \in Instants
  PROVE  \E d \in Weekdays : DayAhead(d, t) = day
<1> DEFINE w == Wday(t)
<1>0. w \in Weekdays
  BY FieldTypes
<1> HIDE DEF w
<1>1. CASE day >= w
  <2>1. day - w \in Weekdays /\ w + (day - w) = day
    BY <1>0, <1>1, CalendarAssumption DEF Weekdays
  <2>2. day % DAYS = day
    BY CalendarAssumption, SmallRemainder DEF Weekdays
  <2> QED BY <2>1, <2>2 DEF DayAhead, w
<1>2. CASE day < w
  <2>1. day - w + DAYS \in Weekdays /\ w + (day - w + DAYS) = day + 1 * DAYS
    BY <1>0, <1>2, CalendarAssumption DEF Weekdays
  <2>2. day \in Int /\ (day + 1 * DAYS) % DAYS = day % DAYS
    BY CalendarAssumption, WholeTurns DEF Weekdays
  <2>3. day % DAYS = day
    BY CalendarAssumption, SmallRemainder DEF Weekdays
  <2> QED BY <2>1, <2>2, <2>3 DEF DayAhead, w
<1> QED BY <1>0, <1>1, <1>2, CalendarAssumption DEF Weekdays

(* A later day is farther away, unless the earlier one is today and the      *)
(* event has passed.                                                        *)
LEMMA LaterIsFarther ==
  ASSUME NEW hour \in 0..(HOURS - 1), NEW min \in 0..(MINS - 1),
         NEW t \in Instants, NEW d \in Weekdays, NEW d2 \in Weekdays, d <= d2,
         d # 0 \/ (At(DayAhead(d, t), hour, min) - t) % WEEK <= DAY
  PROVE  (At(DayAhead(d, t), hour, min) - t) % WEEK
           <= (At(DayAhead(d2, t), hour, min) - t) % WEEK
<1> DEFINE T == At(0, hour, min)
           u == t % DAY
           x == d * DAY
           x2 == d2 * DAY
           D == (At(DayAhead(d, t), hour, min) - t) % WEEK
           D2 == (At(DayAhead(d2, t), hour, min) - t) % WEEK
<1>1. CASE d = d2
  <2>1. D \in Int
    <3>1. DayAhead(d, t) \in Weekdays
      BY DayAheadType
    <3> QED BY <3>1, DelayIsDistance, CalendarTypes
  <2> QED BY <1>1, <2>1
<1>2. CASE d < d2
  <2>0. u \in 0..(DAY - 1) /\ T \in 0..(DAY - 1) /\ DAY \in Nat /\ WEEK \in Nat /\ DAY > 0
    BY DistanceAhead, CalendarTypes
  <2>1. x \in Nat /\ x2 \in Nat /\ x + DAY <= x2 /\ (d = 0 => x = 0)
    <3>1. d \in Nat /\ d2 \in Nat
      BY CalendarAssumption DEF Weekdays
    <3>2. (d + 1) * DAY <= d2 * DAY /\ (d + 1) * DAY = d * DAY + DAY
      BY <1>2, <2>0, <3>1, ProductMonotone
    <3> QED BY <2>0, <3>1, <3>2
  <2>2. D = x + T - u + (IF d = 0 /\ T < u THEN WEEK ELSE 0)
    BY DistanceAhead
  <2>3. d2 # 0 /\ D2 = x2 + T - u
    <3>1. d2 # 0
      BY <1>2, CalendarAssumption DEF Weekdays
    <3>2. D2 = x2 + T - u + (IF d2 = 0 /\ T < u THEN WEEK ELSE 0)
      BY DistanceAhead
    <3> HIDE DEF T, u, x2
    <3>3. D2 = x2 + T - u + 0
      BY <3>1, <3>2
    <3> HIDE DEF D2
    <3> QED BY <2>0, <2>1, <3>1, <3>3
  <2>4. WEEK >= 2 * DAY
    <3>1. 2 * DAY <= DAYS * DAY
      BY <1>2, <2>0, CalendarAssumption, ProductMonotone DEF Weekdays
    <3> QED BY <3>1 DEF WEEK
  <2>5. d # 0 \/ D <= DAY
    OBVIOUS
  <2> HIDE DEF T, u, x, x2, D, D2
  <2>6. CASE d = 0 /\ T < u
    BY <2>0, <2>1, <2>2, <2>4, <2>5, <2>6
  <2>7. CASE ~(d = 0 /\ T < u)
    <3>1. D = x + T - u + 0
      BY <2>2, <2>7
    <3>2. D = x + T - u
      BY <2>0, <2>1, <3>1
    <3>3. D <= D2
      BY <2>0, <2>1, <2>3, <3>2
    <3> QED BY <3>3 DEF D, D2
  <2> QED BY <2>6, <2>7
<1>3. d \in Int /\ d2 \in Int
  BY CalendarAssumption DEF Weekdays
<1> QED BY <1>1, <1>2, <1>3

(* The event the search finds: a valid entry's start, on a day of its mask. *)
LEMMA NearestStarts ==
  ASSUME NEW tbl \in Tables, NEW t \in Instants, HasCandidate(tbl, t)
  PROVE  LET c == Nearest(tbl, t)
             e == tbl[c[1]]
             delay == CandidateDelay(tbl, c, t)
         IN  /\ c[1] \in Slots /\ e.is_valid
             /\ DayAhead(c[2], t) \in e.days_of_week
             /\ delay \in Int
             /\ delay > 0 => (t + delay) % WEEK
                               = At(DayAhead(c[2], t), e.hour_on, e.minute_on)
<1> DEFINE c == Nearest(tbl, t)
           e == tbl[c[1]]
           day == DayAhead(c[2], t)
<1>1. c \in Candidates(tbl, t)
  BY NearestExists
<1> HIDE DEF c
<1>2. c[1] \in Slots /\ c[2] \in Weekdays /\ c = <<c[1], c[2]>>
  BY <1>1, CandidateDelayType
<1>3. e.is_valid /\ day \in e.days_of_week
  BY <1>1 DEF Candidates, Checked
<1>4. CandidateDelay(tbl, c, t) = CalcDelay(day, e.hour_on, e.minute_on, t)
  BY DEF CandidateDelay, OnDelay
<1>5. day \in Weekdays /\ e.hour_on \in 0..(HOURS - 1) /\ e.minute_on \in 0..(MINS - 1)
  BY <1>2, DayAheadType DEF Tables, Entry
<1> HIDE DEF e, day
<1>6. CandidateDelay(tbl, c, t) \in Int
  BY <1>4, <1>5, CalcDelayType
<1>7. CandidateDelay(tbl, c, t) > 0 =>
        (t + CandidateDelay(tbl, c, t)) % WEEK = At(day, e.hour_on, e.minute_on)
  BY <1>4, <1>5, DelayIsDistance
<1> QED BY <1>2, <1>3, <1>6, <1>7 DEF c, e, day

(* delay_to_nearest_schedule_ms: when the delay it returns is positive, no   *)
(* start of any valid entry lies before it. That it looks at one day of each *)
(* entry, or at two when today's start has passed, is enough.               *)
THEOREM NearestIsFirst ==
  ASSUME NEW tbl \in Tables, NEW t \in Instants, HasCandidate(tbl, t),
         CandidateDelay(tbl, Nearest(tbl, t), t) > 0,
         NEW i \in ValidSlots(tbl), NEW day \in tbl[i].days_of_week
  PROVE  (At(day, tbl[i].hour_on, tbl[i].minute_on) - t) % WEEK
           >= CandidateDelay(tbl, Nearest(tbl, t), t)
<1> DEFINE P == CandidateDelay(tbl, Nearest(tbl, t), t)
           e == tbl[i]
           D(d) == (At(DayAhead(d, t), e.hour_on, e.minute_on) - t) % WEEK
           InMask(d) == DayAhead(d, t) \in e.days_of_week
<1>0. /\ i \in Slots /\ e.is_valid /\ e \in Entry
      /\ e.hour_on \in 0..(HOURS - 1) /\ e.minute_on \in 0..(MINS - 1)
      /\ day \in Weekdays
  BY DEF ValidSlots, Tables, Entry
<1>1. P \in Int /\ P > 0
  BY NearestStarts
<1>2. ASSUME NEW d \in Checked(e, t)
      PROVE  P <= D(d) /\ D(d) \in Nat
  <2>1. d \in Weekdays /\ DayAhead(d, t) \in Weekdays
    BY DayAheadType DEF Checked
  <2>2. <<i, d>> \in Candidates(tbl, t)
    BY <1>0, <2>1 DEF Candidates
  <2>3. CandidateDelay(tbl, <<i, d>>, t) = OnDelay(e, d, t)
    BY DEF CandidateDelay
  <2>4. P <= OnDelay(e, d, t)
    <3>1. IsNearest(tbl, Nearest(tbl, t), t)
      BY NearestExists
    <3>2. \/ P < CandidateDelay(tbl, <<i, d>>, t)
          \/ P = CandidateDelay(tbl, <<i, d>>, t)
      BY <2>2, <3>1 DEF IsNearest
    <3>3. CandidateDelay(tbl, <<i, d>>, t) \in Int
      BY <2>2, CandidateDelayType
    <3> HIDE DEF P
    <3> QED BY <1>1, <2>3, <3>2, <3>3
  <2>5. /\ D(d) \in 0..(WEEK - 1)
        /\ OnDelay(e, d, t) = IF D(d) <= WEEK - SECS THEN D(d) ELSE D(d) - WEEK
    BY <1>0, <2>1, DelayIsDistance DEF OnDelay
  <2> HIDE DEF P, D, e
  <2> QED BY <1>1, <2>4, <2>5, CalendarTypes, CalendarAssumption
<1>3. ASSUME NEW d \in Weekdays, InMask(d), d = 0
      PROVE  d \in Checked(e, t)
  BY <1>3 DEF Checked
<1>4. ASSUME NEW d \in Weekdays, InMask(d), d # 0
      PROVE  P <= D(d)
  <2> DEFINE S == {c \in Weekdays : InMask(c) /\ c # 0}
  <2>1. d \in Nat /\ Weekdays \subseteq Nat
    BY CalendarAssumption DEF Weekdays
  <2>2. PICK c \in S : \A b \in S : c <= b
    <3>1. S \subseteq Nat /\ S # {}
      BY <1>4, <2>1
    <3> HIDE DEF S
    <3> QED BY <3>1, LeastNatural
  <2>3. c \in Weekdays /\ InMask(c) /\ c # 0 /\ c <= d
    BY <1>4, <2>2
  <2>4. D(c) <= D(d)
    BY <1>0, <2>3, LaterIsFarther
  <2>5. \A b \in 0..(c - 1) : InMask(b) => b = 0
    <3> TAKE b \in 0..(c - 1)
    <3> HAVE InMask(b)
    <3>1. b \in Weekdays /\ b < c
      BY <2>1, <2>3, CalendarAssumption DEF Weekdays
    <3>2. b # 0 => c <= b
      BY <2>2, <3>1
    <3>3. b \in Nat /\ c \in Nat
      BY <2>1, <2>3, <3>1
    <3> QED BY <3>1, <3>2, <3>3
  <2>6. D(d) \in Nat /\ D(c) \in Nat
    <3>1. DayAhead(d, t) \in Weekdays /\ DayAhead(c, t) \in Weekdays
      BY <2>3, DayAheadType
    <3>2. D(d) \in 0..(WEEK - 1) /\ D(c) \in 0..(WEEK - 1)
      BY <1>0, <3>1, DelayIsDistance
    <3> QED BY <3>2, CalendarTypes
  <2>7. CASE c \in Checked(e, t)
    <3>1. P <= D(c)
      BY <1>2, <2>7
    <3> HIDE DEF P, D
    <3> QED BY <1>1, <2>4, <2>6, <3>1
  <2>8. CASE c \notin Checked(e, t)
    <3>1. InMask(0) /\ 0 \in Weekdays /\ ~(OnDelay(e, 0, t) > DAY)
      <4>1. \E b \in 0..(c - 1) : InMask(b) /\ ~(b = 0 /\ OnDelay(e, 0, t) > DAY)
        BY <2>3, <2>8 DEF Checked
      <4>2. 0 \in Weekdays
        BY CalendarAssumption DEF Weekdays
      <4> QED BY <2>5, <4>1, <4>2
    <3>2. P <= D(0) /\ D(0) \in Nat
      BY <1>2, <1>3, <3>1
    <3>3. D(0) <= DAY
      <4>1. DayAhead(0, t) \in Weekdays
        BY <3>1, DayAheadType
      <4>2. /\ D(0) \in 0..(WEEK - 1)
            /\ OnDelay(e, 0, t) = IF D(0) <= WEEK - SECS THEN D(0) ELSE D(0) - WEEK
        BY <1>0, <4>1, DelayIsDistance DEF OnDelay
      <4>3. P <= OnDelay(e, 0, t)
        <5>1. <<i, 0>> \in Candidates(tbl, t)
          BY <1>0, <1>3, <3>1 DEF Candidates
        <5>2. /\ CandidateDelay(tbl, <<i, 0>>, t) = OnDelay(e, 0, t)
              /\ CandidateDelay(tbl, <<i, 0>>, t) \in Int
          BY <5>1, CandidateDelayType DEF CandidateDelay
        <5>3. \/ P < CandidateDelay(tbl, <<i, 0>>, t)
              \/ P = CandidateDelay(tbl, <<i, 0>>, t)
          BY <5>1, NearestExists DEF IsNearest
        <5> HIDE DEF P
        <5> QED BY <1>1, <5>2, <5>3
      <4> HIDE DEF P, D, e
      <4> QED BY <1>1, <3>1, <4>2, <4>3, CalendarTypes, CalendarAssumption
    <3>4. 0 <= d
      BY <2>1
    <3>5. D(0) <= D(d)
      BY <1>0, <1>4, <3>1, <3>3, <3>4, LaterIsFarther
    <3> HIDE DEF P, D
    <3> QED BY <1>1, <2>6, <3>2, <3>5
  <2> QED BY <2>7, <2>8
<1>5. PICK d \in Weekdays : DayAhead(d, t) = day
  BY <1>0, DayReached
<1>6. P <= D(d)
  BY <1>2, <1>3, <1>4, <1>5
<1>7. D(d) \in Nat
  <2>1. D(d) \in 0..(WEEK - 1)
    BY <1>0, <1>5, DelayIsDistance
  <2> QED BY <2>1, CalendarTypes
<1> QED BY <1>1, <1>5, <1>6, <1>7

-----------------------------------------------------------------------------
(* The compaction loop (DeleteLoop).                                       *)

Freed == [initial EXCEPT ![deleted].is_valid = FALSE]

(* The table after k rounds. *)
After(k) ==
  [j \in Slots |-> IF j < deleted THEN Freed[j]
                   ELSE IF j < deleted + k THEN Freed[Last(2 * j - deleted + 1)]
                   ELSE Freed[Last(j + k)]]

(* The invariant of the loop: the indices count its rounds, each of which     *)
(* found a valid entry, and the table is the closed form so far.             *)
DeleteInv ==
  /\ DeleteTypeOK
  /\ delete_pc = "invalidate" => compacted = initial /\ sched_index = deleted
  /\ delete_pc \in {"loop", "done"} =>
       /\ sched_index >= deleted
       /\ next_index = sched_index + 1
       /\ compacted = After(sched_index - deleted)
       /\ \A m \in 0..(sched_index - deleted - 1) :
            deleted + m + 1 \in Slots /\ Freed[Last(deleted + 2 * m + 1)].is_valid
  /\ delete_pc = "done" => ~LoopCondition

LEMMA FreedType ==
  ASSUME DeleteTypeOK
  PROVE  Freed \in Tables /\ \A j \in Nat : Last(j) \in Slots /\ Freed[Last(j)] \in Entry
<1>1. Freed \in Tables
  BY DEF DeleteTypeOK, Freed, Tables, Entry
<1>2. \A j \in Nat : Last(j) \in Slots
  BY TableAssumption DEF Last, Slots
<1> QED BY <1>1, <1>2 DEF Tables

LEMMA AfterType ==
  ASSUME DeleteTypeOK, NEW k \in Nat
  PROVE  After(k) \in Tables
<1>0. deleted \in Slots /\ Slots \subseteq Nat
  BY TableAssumption DEF DeleteTypeOK, Slots
<1>1. ASSUME NEW j \in Slots
      PROVE  (IF j < deleted THEN Freed[j]
              ELSE IF j < deleted + k THEN Freed[Last(2 * j - deleted + 1)]
              ELSE Freed[Last(j + k)]) \in Entry
  <2>1. CASE j < deleted
    BY <2>1, FreedType DEF Tables
  <2>2. CASE j >= deleted /\ j < deleted + k
    <3>1. 2 * j - deleted + 1 \in Nat
      BY <1>0, <2>2
    <3>2. Freed[Last(2 * j - deleted + 1)] \in Entry
      BY <3>1, FreedType
    <3> QED BY <1>0, <2>2, <3>2
  <2>3. CASE j >= deleted + k
    <3>1. j + k \in Nat /\ ~(j < deleted) /\ ~(j < deleted + k)
      BY <1>0, <2>3
    <3> QED BY <3>1, FreedType
  <2> QED BY <1>0, <2>1, <2>2, <2>3
<1> QED BY <1>1 DEF After, Tables

LEMMA InitDelete == DeleteInit => DeleteInv
<1> SUFFICES ASSUME DeleteInit PROVE DeleteInv
  OBVIOUS
<1>1. initial \in Tables
  BY DeleteAssumption DEF DeleteInit, Tables
<1>2. deleted \in 0..MAX_SCHEDULE_ENTRIES
  BY TableAssumption DEF DeleteInit, Slots
<1> QED BY <1>1, <1>2 DEF DeleteInit, DeleteInv, DeleteTypeOK

(* What a memmove leaves after k rounds is what k + 1 rounds leave.          *)
LEMMA RoundMoves ==
  ASSUME DeleteTypeOK, NEW k \in Nat, deleted + k + 1 \in Slots
  PROVE  Moved(After(k), deleted + k, deleted + k + 1) = After(k + 1)
<1> DEFINE n == MAX_SCHEDULE_ENTRIES
           i == deleted
           F == Freed
<1>0. n \in Nat /\ n > 0 /\ i \in Nat /\ Slots = 0..(n - 1) /\ i + k + 1 <= n - 1
  BY TableAssumption DEF DeleteTypeOK, Slots
<1>a. \A j \in Slots : After(k)[j] = IF j < i THEN F[j]
                                     ELSE IF j < i + k THEN F[Last(2 * j - i + 1)]
                                     ELSE F[Last(j + k)]
  BY DEF After
<1>b. \A j \in Slots : After(k + 1)[j] = IF j < i THEN F[j]
                                         ELSE IF j < i + (k + 1) THEN F[Last(2 * j - i + 1)]
                                         ELSE F[Last(j + (k + 1))]
  BY DEF After
<1>m. \A j \in Slots : Moved(After(k), i + k, i + k + 1)[j]
                         = IF j >= i + k /\ j < i + k + (n - (i + k + 1))
                           THEN After(k)[j + (i + k + 1) - (i + k)] ELSE After(k)[j]
  BY DEF Moved
<1> HIDE DEF F, i, n
<1>1. ASSUME NEW j \in Slots
      PROVE  Moved(After(k), i + k, i + k + 1)[j] = After(k + 1)[j]
  <2>1. CASE j < i + k
    <3>1. Moved(After(k), i + k, i + k + 1)[j] = After(k)[j]
      BY <1>0, <1>m, <2>1
    <3> QED BY <1>0, <1>a, <1>b, <2>1, <3>1
  <2>2. CASE j >= i + k /\ j < n - 1
    <3>1. j + (i + k + 1) - (i + k) = j + 1 /\ i + k + (n - (i + k + 1)) = n - 1
      BY <1>0
    <3>2. Moved(After(k), i + k, i + k + 1)[j] = After(k)[j + 1]
      BY <1>m, <2>2, <3>1
    <3>3. After(k)[j + 1] = F[Last(j + 1 + k)]
      <4>1. j + 1 \in Slots /\ ~(j + 1 < i) /\ ~(j + 1 < i + k)
        BY <1>0, <2>2
      <4> QED BY <1>a, <4>1
    <3>4. CASE j = i + k
      <4>1. 2 * j - i + 1 = j + 1 + k /\ ~(j < i) /\ j < i + (k + 1)
        BY <1>0, <3>4
      <4> QED BY <1>b, <3>2, <3>3, <4>1
    <3>5. CASE j > i + k
      <4>1. j + 1 + k = j + (k + 1) /\ ~(j < i) /\ ~(j < i + (k + 1))
        BY <1>0, <3>5
      <4> QED BY <1>b, <3>2, <3>3, <4>1
    <3> QED BY <1>0, <2>2, <3>4, <3>5
  <2>3. CASE j = n - 1
    <3>1. Moved(After(k), i + k, i + k + 1)[j] = After(k)[j]
      BY <1>0, <1>m, <2>3
    <3>2. After(k)[j] = F[Last(j + k)] /\ After(k + 1)[j] = F[Last(j + (k + 1))]
      BY <1>0, <1>a, <1>b, <2>3
    <3>3. Last(j + k) = j /\ Last(j + (k + 1)) = j
      BY <1>0, <2>3 DEF Last, n
    <3> QED BY <3>1, <3>2, <3>3
  <2> QED BY <1>0, <2>1, <2>2, <2>3
<1>2. Moved(After(k), i + k, i + k + 1) = [j \in Slots |-> Moved(After(k), i + k, i + k + 1)[j]]
  BY DEF Moved
<1>3. After(k + 1) = [j \in Slots |-> After(k + 1)[j]]
  BY DEF After
<1>4. Moved(After(k), i + k, i + k + 1) = After(k + 1)
  <2> DEFINE a == Moved(After(k), i + k, i + k + 1)
             b == After(k + 1)
  <2>1. \A j \in Slots : a[j] = b[j]
    BY <1>1
  <2>2. a = [j \in Slots |-> a[j]] /\ b = [j \in Slots |-> b[j]]
    BY <1>2, <1>3
  <2> HIDE DEF a, b
  <2>3. a = b
    BY <2>1, <2>2
  <2> QED BY <2>3 DEF a, b
<1> QED BY <1>4 DEF i

LEMMA NextDelete == DeleteInv /\ [DeleteNext]_delete_vars => DeleteInv'
<1> SUFFICES ASSUME DeleteInv, [DeleteNext]_delete_vars PROVE DeleteInv'
  OBVIOUS
<1>0. /\ DeleteTypeOK
      /\ MAX_SCHEDULE_ENTRIES \in Nat /\ Slots = 0..(MAX_SCHEDULE_ENTRIES - 1)
      /\ deleted \in Nat /\ sched_index \in Nat /\ deleted \in Slots /\ sched_index \in Slots
  BY TableAssumption DEF DeleteInv, DeleteTypeOK, Slots
<1>1. CASE Invalidate
  <2>1. /\ delete_pc' = "loop" /\ next_index' = sched_index' + 1
        /\ sched_index' = deleted' /\ initial' = initial /\ deleted' = deleted
        /\ compacted' = Freed
    BY <1>1 DEF Invalidate, DeleteInv, Freed
  <2>2. Freed = After(0)
    <3>1. \A j \in Slots : Freed[j] = After(0)[j]
      <4> TAKE j \in Slots
      <4>1. Last(j + 0) = j
        BY <1>0 DEF Last
      <4>2. ~(j < deleted) => ~(j < deleted + 0)
        BY <1>0
      <4> QED BY <4>1, <4>2 DEF After
    <3>2. Freed = [j \in Slots |-> Freed[j]] /\ After(0) = [j \in Slots |-> After(0)[j]]
      BY <1>0, FreedType DEF Tables, After
    <3> DEFINE a == Freed
               b == After(0)
    <3> HIDE DEF a, b
    <3>3. a = b
      BY <3>1, <3>2 DEF a, b
    <3> QED BY <3>3 DEF a, b
  <2>3. After(0)' = After(0)
    BY <2>1 DEF After, Freed
  <2>4. DeleteTypeOK'
    BY <1>0, <2>1, FreedType DEF DeleteTypeOK
  <2>5. sched_index' - deleted' = 0
    BY <1>0, <2>1
  <2> QED BY <1>0, <2>1, <2>2, <2>3, <2>4, <2>5 DEF DeleteInv
<1>2. CASE Round
  <2>0. PICK k \in Nat : k = sched_index - deleted
    <3>1. sched_index >= deleted
      BY <1>2 DEF Round, DeleteInv
    <3> QED BY <1>0, <3>1
  <2>1. /\ delete_pc = "loop" /\ LoopCondition
        /\ delete_pc' = delete_pc /\ initial' = initial /\ deleted' = deleted
        /\ sched_index' = sched_index + 1 /\ next_index' = next_index + 1
        /\ compacted' = Moved(compacted, sched_index, next_index)
    BY <1>2 DEF Round
  <2>2. /\ sched_index >= deleted /\ next_index = sched_index + 1
        /\ compacted = After(k)
        /\ \A m \in 0..(k - 1) : deleted + m + 1 \in Slots /\ Freed[Last(deleted + 2 * m + 1)].is_valid
    BY <2>0, <2>1 DEF DeleteInv
  <2>3. k \in Nat /\ sched_index = deleted + k /\ next_index = deleted + k + 1
        /\ deleted + k + 1 \in Slots
    BY <1>0, <2>0, <2>1, <2>2 DEF LoopCondition
  <2>4. sched_index' - deleted' = k + 1
    BY <1>0, <2>0, <2>1
  <2>5. compacted' = After(k + 1)
    BY <1>0, <2>1, <2>2, <2>3, RoundMoves
  <2>6. After(k + 1)' = After(k + 1) /\ Freed' = Freed
    BY <2>1 DEF After, Freed
  <2>7. Freed[Last(deleted + 2 * k + 1)].is_valid
    <3>1. compacted[next_index].is_valid
      BY <2>1 DEF LoopCondition
    <3>2. After(k)[deleted + k + 1] = Freed[Last(deleted + k + 1 + k)]
      BY <1>0, <2>3 DEF After
    <3>3. deleted + k + 1 + k = deleted + 2 * k + 1
      BY <1>0, <2>3
    <3> QED BY <2>2, <2>3, <3>1, <3>2, <3>3
  <2>8. \A m \in 0..(k + 1 - 1) :
          deleted + m + 1 \in Slots /\ Freed[Last(deleted + 2 * m + 1)].is_valid
    <3> TAKE m \in 0..(k + 1 - 1)
    <3>1. m \in 0..(k - 1) \/ m = k
      BY <2>3
    <3> QED BY <2>2, <2>3, <2>7, <3>1
  <2>9. DeleteTypeOK'
    <3>1. compacted' \in Tables
      BY <1>0, <2>3, <2>5, AfterType
    <3> QED BY <1>0, <2>1, <2>3, <3>1 DEF DeleteTypeOK
  <2>10. /\ sched_index' >= deleted' /\ next_index' = sched_index' + 1
    BY <1>0, <2>1, <2>2, <2>3
  <2>11. /\ compacted' = After(sched_index - deleted)'
         /\ \A m \in 0..(sched_index' - deleted' - 1) :
              deleted' + m + 1 \in Slots /\ Freed'[Last(deleted' + 2 * m + 1)].is_valid
    <3>1. After(sched_index - deleted)' = After(k + 1)
      BY <2>1, <2>4, <2>6 DEF After
    <3> QED BY <2>1, <2>4, <2>5, <2>6, <2>8, <3>1
  <2> QED BY <2>1, <2>9, <2>10, <2>11 DEF DeleteInv
<1>3. CASE Exit
  BY <1>3 DEF Exit, DeleteInv, DeleteTypeOK, LoopCondition, After, Freed
<1>4. CASE UNCHANGED delete_vars
  BY <1>4 DEF delete_vars, DeleteInv, DeleteTypeOK, LoopCondition, After, Freed
<1> QED BY <1>1, <1>2, <1>3, <1>4 DEF DeleteNext

(* The rounds a deletion has done when its condition fails are the rounds    *)
(* that Deleted counts.                                                     *)
LEMMA DeleteInvComputes == DeleteInv => ComputesDeleted
<1> SUFFICES ASSUME DeleteInv, delete_pc = "done" PROVE compacted = Deleted(initial, deleted)
  BY DEF ComputesDeleted
<1> DEFINE k == sched_index - deleted
           r == Rounds(Freed, deleted)
<1>0. /\ DeleteTypeOK
      /\ MAX_SCHEDULE_ENTRIES \in Nat /\ Slots = 0..(MAX_SCHEDULE_ENTRIES - 1)
      /\ deleted \in Nat /\ sched_index \in Nat /\ deleted \in Slots /\ sched_index \in Slots
  BY TableAssumption DEF DeleteInv, DeleteTypeOK, Slots
<1>1. /\ k \in Nat /\ k <= MAX_SCHEDULE_ENTRIES
      /\ next_index = deleted + k + 1 /\ compacted = After(k)
      /\ \A m \in 0..(k - 1) : deleted + m + 1 \in Slots /\ Freed[Last(deleted + 2 * m + 1)].is_valid
      /\ ~LoopCondition
  <2>1. sched_index >= deleted /\ next_index = sched_index + 1
    BY DEF DeleteInv
  <2> QED BY <1>0, <2>1 DEF DeleteInv
<1> HIDE DEF k
<1>2. deleted + k + 1 \in Slots => ~Freed[Last(deleted + 2 * k + 1)].is_valid
  <2> SUFFICES ASSUME deleted + k + 1 \in Slots PROVE ~Freed[Last(deleted + 2 * k + 1)].is_valid
    OBVIOUS
  <2>1. ~compacted[deleted + k + 1].is_valid
    BY <1>0, <1>1 DEF LoopCondition
  <2>2. After(k)[deleted + k + 1] = Freed[Last(deleted + k + 1 + k)]
    BY <1>0, <1>1 DEF After
  <2>3. deleted + k + 1 + k = deleted + 2 * k + 1
    BY <1>0, <1>1
  <2> QED BY <1>1, <2>1, <2>2, <2>3
<1>3. /\ r \in Nat
      /\ deleted + r + 1 \in Slots => ~Freed[Last(deleted + 2 * r + 1)].is_valid
      /\ \A m \in 0..(r - 1) : deleted + m + 1 \in Slots /\ Freed[Last(deleted + 2 * m + 1)].is_valid
  <2>1. Freed \in Tables
    BY <1>0, FreedType
  <2>2. r \in 0..MAX_SCHEDULE_ENTRIES
    BY <1>0, <2>1, RoundsStop
  <2>3. /\ deleted + r + 1 \in Slots => ~Freed[Last(deleted + 2 * r + 1)].is_valid
        /\ \A m \in 0..(r - 1) : deleted + m + 1 \in Slots /\ Freed[Last(deleted + 2 * m + 1)].is_valid
    BY <1>0, <2>1, RoundsStop
  <2>4. r \in Nat
    BY <1>0, <2>2
  <2> QED BY <2>3, <2>4
<1> HIDE DEF r
<1>4. k = r
  <2>1. ~(k < r)
    <3> SUFFICES ASSUME k < r PROVE FALSE
      OBVIOUS
    <3>1. k \in 0..(r - 1)
      BY <1>1, <1>3
    <3> QED BY <1>2, <1>3, <3>1
  <2>2. ~(r < k)
    <3> SUFFICES ASSUME r < k PROVE FALSE
      OBVIOUS
    <3>1. r \in 0..(k - 1)
      BY <1>1, <1>3
    <3> QED BY <1>1, <1>3, <3>1
  <2> QED BY <1>1, <1>3, <2>1, <2>2
<1>5. Deleted(initial, deleted) = After(r)
  BY DEF Deleted, Compacted, After, Freed, r
<1> QED BY <1>1, <1>4, <1>5

(* Round by round, the compaction loop of EVENT_SCHED_DEL leaves what the     *)
(* closed form says (server_schedule.c:359), on a table of any size.         *)
THEOREM LoopComputesDeleted == DeleteSpec => []ComputesDeleted
BY InitDelete, NextDelete, DeleteInvComputes, PTL DEF DeleteSpec

(* The deletion loop does not leave the table, although it moves entries from   *)
(* one slot further on each round (server_schedule.c:363): it ends at the last.  *)
THEOREM DeleteTypeCorrect == DeleteSpec => []DeleteTypeOK
<1>1. DeleteInv => DeleteTypeOK
  BY DEF DeleteInv
<1> QED BY <1>1, InitDelete, NextDelete, PTL DEF DeleteSpec

-----------------------------------------------------------------------------
(* The search for the nearest event (NearestLoop).                         *)

SearchTyped ==
  /\ SearchTypeOK
  /\ search_pc = "day" => slot \in Slots
  /\ nearest_sched_index # -1 => nearest_sched_wday \in Weekdays

(* A probe mixes two readings of the clock: the delay stays in the range of   *)
(* one taken at once.                                                       *)
LEMMA ProbeDelayType ==
  ASSUME SearchTyped, search_pc = "day", NEW t \in Instants
  PROVE  ProbeDelay(t) \in (1 - SECS)..(WEEK - SECS)
<1> DEFINE c == CalcDelay(wday, table[slot].hour_on, table[slot].minute_on, now_tm)
<1>1. /\ wday \in Weekdays /\ now_tm \in Instants
      /\ table[slot].hour_on \in 0..(HOURS - 1) /\ table[slot].minute_on \in 0..(MINS - 1)
  BY DEF SearchTyped, SearchTypeOK, Tables, Entry
<1>2. c \in (1 - SECS)..(WEEK - SECS) /\ c + Second(now_tm) \in 0..(WEEK - SECS)
  BY <1>1, CalcDelayValue
<1>3. Second(now_tm) \in 0..(SECS - 1) /\ Second(t) \in 0..(SECS - 1)
  BY <1>1, FieldTypes
<1>4. ProbeDelay(t) = c + Second(now_tm) - Second(t)
  BY DEF ProbeDelay
<1> HIDE DEF c
<1> QED BY <1>2, <1>3, <1>4, CalendarTypes, CalendarAssumption

LEMMA ClockType ==
  ASSUME SearchTypeOK
  PROVE  Clock \in Instants
<1>1. start + drift \in Int
  BY SampleAssumption, CalendarTypes DEF SearchTypeOK, Instants
<1> QED BY <1>1, CalendarTypes, RemainderType DEF Clock, Instants

LEMMA InitSearchTyped == SearchInit => SearchTyped
<1> SUFFICES ASSUME SearchInit PROVE SearchTyped
  OBVIOUS
<1>1. table \in Tables
  BY SampleAssumption DEF SearchInit, Tables
<1>2. wday \in Weekdays /\ 0 \in Weekdays /\ 0 \in 0..DAYS
  BY FieldTypes, CalendarAssumption DEF SearchInit, Weekdays
<1>3. time_delay \in (-SECS + 1)..NoDelay
  BY CalendarTypes, CalendarAssumption DEF SearchInit, NoDelay
<1>4. 0 \in 0..MAX_SCHEDULE_ENTRIES /\ drift \in 0..MaxDrift
  BY TableAssumption, SampleAssumption DEF SearchInit
<1> QED BY <1>1, <1>2, <1>3, <1>4 DEF SearchInit, SearchTyped, SearchTypeOK

LEMMA NextSearchTyped == SearchTyped /\ [SearchNext]_search_vars => SearchTyped'
<1> SUFFICES ASSUME SearchTyped, [SearchNext]_search_vars PROVE SearchTyped'
  OBVIOUS
<1>0. SearchTypeOK
  BY DEF SearchTyped
<1>s. /\ MAX_SCHEDULE_ENTRIES \in Nat /\ Slots = 0..(MAX_SCHEDULE_ENTRIES - 1)
      /\ DAYS \in Nat /\ DAYS > 0 /\ Weekdays = 0..(DAYS - 1)
  BY TableAssumption, CalendarAssumption DEF Slots, Weekdays
<1>d. \A d \in Weekdays : (d + 1) % DAYS \in Weekdays
  BY <1>s, RemainderType
<1> USE <1>0 DEF SearchTyped, SearchTypeOK
<1>1. CASE ClockTick
  BY <1>1, SampleAssumption DEF ClockTick
<1>2. CASE EnterEntry
  <2>1. Wday(now_tm) \in Weekdays
    BY FieldTypes
  <2> QED BY <1>2, <1>s, <2>1 DEF EnterEntry
<1>3. CASE SkipDay
  BY <1>3, <1>s, <1>d DEF SkipDay, NextDay
<1>4. CASE NoMoreDays
  BY <1>4, <1>s DEF NoMoreDays, LeaveEntry
<1>5. CASE ProbeDay
  <2>1. Clock \in Instants
    BY ClockType
  <2>2. ProbeDelay(Clock) \in (1 - SECS)..(WEEK - SECS)
    BY <1>5, <2>1, ProbeDelayType DEF ProbeDay
  <2>3. ProbeDelay(Clock) \in (-SECS + 1)..NoDelay
    BY <2>2, CalendarTypes, CalendarAssumption DEF NoDelay
  <2>4. slot \in Slots /\ wday \in Weekdays /\ days_checked < DAYS
    BY <1>5 DEF ProbeDay
  <2>5. /\ now_tm' \in Instants /\ UNCHANGED <<table, start, drift, off_day>>
        /\ time_delay' \in (-SECS + 1)..NoDelay
        /\ nearest_sched_index' \in Slots \cup {-1}
        /\ nearest_sched_wday' \in Weekdays \cup {-1}
        /\ nearest_sched_index' # -1 => nearest_sched_wday' \in Weekdays
    BY <1>5, <2>1, <2>3, <2>4 DEF ProbeDay
  <2>6. /\ slot' \in 0..MAX_SCHEDULE_ENTRIES /\ days_checked' \in 0..DAYS /\ wday' \in Weekdays
        /\ search_pc' \in {"entry", "day"} /\ (search_pc' = "day" => slot' \in Slots)
    BY <1>5, <1>s, <1>d, <2>4 DEF ProbeDay, NextDay, LeaveEntry
  <2> QED BY <2>5, <2>6
<1>6. CASE ReturnNearest
  <2>1. off_day' \in Weekdays
    <3>1. CASE nearest_sched_index = -1
      BY <1>6, <3>1 DEF ReturnNearest
    <3>2. CASE nearest_sched_index # -1
      <4>1. table[nearest_sched_index] \in Entry /\ nearest_sched_wday \in Weekdays
        BY <3>2 DEF Tables
      <4> QED BY <1>6, <3>2, <4>1, OffDayType DEF ReturnNearest
    <3> QED BY <3>1, <3>2
  <2> QED BY <1>6, <2>1 DEF ReturnNearest
<1>7. CASE UNCHANGED search_vars
  BY <1>7 DEF search_vars
<1> QED BY <1>1, <1>2, <1>3, <1>4, <1>5, <1>6, <1>7 DEF SearchNext, SearchStep

LEMMA SearchTypedAlways == SearchSpec => []SearchTyped
BY InitSearchTyped, NextSearchTyped, PTL DEF SearchSpec

(* The search stays in the table and in the week, and its delay, put together    *)
(* from two readings of the clock (server_schedule.c:84), is never negative by   *)
(* a minute or more.                                                        *)
THEOREM SearchTypeCorrect == SearchSpec => []SearchTypeOK
<1>1. SearchTyped => SearchTypeOK
  BY DEF SearchTyped
<1> QED BY <1>1, SearchTypedAlways, PTL

-----------------------------------------------------------------------------
(* How late a wake-up can be.                                              *)

(* The shared struct tm shows an instant of the search, and the delay found   *)
(* would wake the scheduler x seconds after the event, whole weeks aside.    *)
SearchLate ==
  /\ \E r \in 0..drift : now_tm = (start + r) % WEEK
  /\ nearest_sched_index # -1 =>
       \E x \in 0..(SECS + drift), k \in Int :
         start + drift + time_delay
           = At(nearest_sched_wday, table[nearest_sched_index].hour_on,
                table[nearest_sched_index].minute_on) + x + k * WEEK

(* The second of an instant does not depend on the week it is counted in.    *)
LEMMA SecondOfReading ==
  ASSUME NEW a \in Nat
  PROVE  Second(a % WEEK) = a % SECS
<1> DEFINE k == DAYS * HOURS * MINS
           q == a \div WEEK
           r == a % WEEK
<1>1. k \in Nat /\ WEEK = k * SECS
  <2>1. DAYS * HOURS \in Nat /\ HOURS * MINS \in Nat
    BY CalendarAssumption
  <2>2. WEEK = DAYS * (HOURS * MINS * SECS) /\ DAYS * (HOURS * MINS * SECS) = DAYS * (HOURS * MINS) * SECS
    BY <2>1, CalendarAssumption, Distribute DEF WEEK, DAY
  <2>3. DAYS * (HOURS * MINS) = k
    BY CalendarAssumption, Distribute
  <2>4. k \in Nat
    BY <2>1, CalendarAssumption
  <2> QED BY <2>2, <2>3, <2>4
<1>2. q \in Int /\ r \in Int /\ a = WEEK * q + r
  BY CalendarTypes
<1> HIDE DEF k, q, r
<1>3. a = r + (q * k) * SECS /\ q * k \in Int
  BY <1>1, <1>2, CalendarAssumption
<1>4. a % SECS = r % SECS
  BY <1>2, <1>3, CalendarAssumption, WholeTurns
<1> QED BY <1>4 DEF Second, r

(* Between two readings, what the seconds shown lose and the time that       *)
(* passed add up to whole minutes that have begun: never less than nothing.  *)
LEMMA MinutesBegun ==
  ASSUME NEW a \in Nat, NEW b \in Nat, a <= b
  PROVE  (b - a) + (a % SECS) - (b % SECS) \in 0..(SECS + (b - a))
<1> DEFINE p == a \div SECS
           q == b \div SECS
           s == a % SECS
           u == b % SECS
<1>1. /\ p \in Int /\ q \in Int /\ s \in 0..(SECS - 1) /\ u \in 0..(SECS - 1)
      /\ a = SECS * p + s /\ b = SECS * q + u
  BY CalendarAssumption
<1> HIDE DEF p, q, s, u
<1>2. p <= q
  <2> SUFFICES ASSUME q + 1 <= p PROVE FALSE
    BY <1>1
  <2>1. (q + 1) * SECS <= p * SECS
    BY <1>1, CalendarAssumption, ProductMonotone
  <2> QED BY <1>1, <2>1, CalendarAssumption
<1>3. p * SECS <= q * SECS
  BY <1>1, <1>2, CalendarAssumption, ProductMonotone
<1>4. (b - a) + s - u >= 0
  BY <1>1, <1>3, CalendarAssumption
<1>5. (b - a) + s - u <= SECS + (b - a)
  BY <1>1, CalendarAssumption
<1> QED BY <1>1, <1>4, <1>5, CalendarAssumption DEF s, u

LEMMA ProbeLate ==
  ASSUME SearchTyped, search_pc = "day", NEW r \in 0..drift, now_tm = (start + r) % WEEK
  PROVE  \E x \in 0..(SECS + drift), k \in Int :
           start + drift + ProbeDelay(Clock)
             = At(wday, table[slot].hour_on, table[slot].minute_on) + x + k * WEEK
<1> DEFINE T == At(wday, table[slot].hour_on, table[slot].minute_on)
           c == CalcDelay(wday, table[slot].hour_on, table[slot].minute_on, now_tm)
           a == start + r
           b == start + drift
           q == a \div WEEK
           s == a % SECS
           u == b % SECS
           x == (b - a) + s - u
<1>0. /\ start \in Nat /\ drift \in Nat /\ r \in Nat /\ r <= drift
      /\ wday \in Weekdays /\ now_tm \in Instants
      /\ table[slot].hour_on \in 0..(HOURS - 1) /\ table[slot].minute_on \in 0..(MINS - 1)
      /\ WEEK \in Nat /\ WEEK > 0
  BY SampleAssumption, CalendarTypes DEF SearchTyped, SearchTypeOK, Instants, Tables, Entry
<1>1. PICK k \in Int : c = T - now_tm + k * WEEK
  BY <1>0, CalcDelayValue
<1>2. a \in Nat /\ b \in Nat /\ a <= b /\ b - a <= drift
  BY <1>0
<1>3. q \in Int /\ now_tm \in Int /\ a = WEEK * q + now_tm
  <2>1. now_tm = a % WEEK
    OBVIOUS
  <2> HIDE DEF a
  <2> QED BY <1>0, <1>2, <2>1
<1>4. Second(now_tm) = s /\ Second(Clock) = u
  BY <1>2, SecondOfReading DEF Clock
<1>5. x \in 0..(SECS + (b - a))
  BY <1>2, MinutesBegun
<1>6. T \in Int
  BY <1>0, AtRange, CalendarTypes DEF Instants
<1>7. ProbeDelay(Clock) = c + s - u
  BY <1>4 DEF ProbeDelay
<1>8. s \in Int /\ u \in Int
  <2> HIDE DEF a, b
  <2> QED BY <1>2, CalendarAssumption
<1>9. b + ProbeDelay(Clock) = T + x + (q + k) * WEEK
  <2> DEFINE y == q * WEEK
             z == k * WEEK
  <2>1. /\ y \in Int /\ z \in Int
        /\ WEEK * q = y /\ (q + k) * WEEK = y + z
    <3> HIDE DEF q
    <3> QED BY <1>0, <1>1, <1>3
  <2>2. c = T - now_tm + z /\ a = y + now_tm /\ x = (b - a) + s - u
    BY <1>1, <1>3, <2>1
  <2> HIDE DEF T, c, a, b, q, s, u, x, y, z
  <2> QED BY <1>2, <1>3, <1>6, <1>7, <1>8, <2>1, <2>2
<1>10. x \in 0..(SECS + drift)
  <2> HIDE DEF a, b, x
  <2> QED BY <1>0, <1>2, <1>5, CalendarAssumption
<1>11. q + k \in Int
  BY <1>1, <1>3
<1> QED BY <1>9, <1>10, <1>11 DEF T, b

LEMMA InitSearchLate == SearchInit => SearchLate
<1> SUFFICES ASSUME SearchInit PROVE SearchLate
  OBVIOUS
<1>1. start % WEEK = start /\ start + 0 = start
  BY CalendarTypes, SmallRemainder DEF SearchInit, Instants
<1>2. drift = 0 /\ now_tm = (start + 0) % WEEK /\ nearest_sched_index = -1
  BY <1>1 DEF SearchInit
<1> QED BY <1>2 DEF SearchLate

LEMMA NextSearchLate == SearchTyped /\ SearchLate /\ [SearchNext]_search_vars => SearchLate'
<1> SUFFICES ASSUME SearchTyped, SearchLate, [SearchNext]_search_vars PROVE SearchLate'
  OBVIOUS
<1>0. /\ start \in Nat /\ drift \in Nat /\ time_delay \in Int
  BY SampleAssumption, CalendarTypes, CalendarAssumption
     DEF SearchTyped, SearchTypeOK, Instants, NoDelay
<1>1. CASE ClockTick
  <2>1. /\ UNCHANGED <<table, start, now_tm, time_delay, nearest_sched_index, nearest_sched_wday>>
        /\ drift' = drift + 1
    BY <1>1 DEF ClockTick
  <2>2. \E r \in 0..drift' : now_tm' = (start' + r) % WEEK
    <3>1. PICK r \in 0..drift : now_tm = (start + r) % WEEK
      BY DEF SearchLate
    <3>2. r \in 0..drift'
      BY <1>0, <2>1
    <3> QED BY <2>1, <3>1, <3>2
  <2>3. ASSUME nearest_sched_index # -1
        PROVE  \E x \in 0..(SECS + drift'), k \in Int :
                 start' + drift' + time_delay'
                   = At(nearest_sched_wday', table'[nearest_sched_index'].hour_on,
                        table'[nearest_sched_index'].minute_on) + x + k * WEEK
    <3> DEFINE T == At(nearest_sched_wday, table[nearest_sched_index].hour_on,
                       table[nearest_sched_index].minute_on)
    <3>1. PICK x \in 0..(SECS + drift), k \in Int : start + drift + time_delay = T + x + k * WEEK
      BY <2>3 DEF SearchLate
    <3>2. T \in Int
      <4>1. /\ nearest_sched_wday \in Weekdays
            /\ table[nearest_sched_index].hour_on \in 0..(HOURS - 1)
            /\ table[nearest_sched_index].minute_on \in 0..(MINS - 1)
        BY <2>3 DEF SearchTyped, SearchTypeOK, Tables, Entry
      <4> QED BY <4>1, AtRange, CalendarTypes DEF Instants
    <3> HIDE DEF T
    <3>3. start + (drift + 1) + time_delay = T + (x + 1) + k * WEEK
      <4> DEFINE z == k * WEEK
      <4>1. z \in Int /\ x \in Int
        BY <1>0, CalendarTypes, CalendarAssumption
      <4>2. start + drift + time_delay = T + x + z
        BY <3>1
      <4> HIDE DEF z
      <4>3. start + (drift + 1) + time_delay = T + (x + 1) + z
        BY <1>0, <3>2, <4>1, <4>2
      <4> QED BY <4>3 DEF z
    <3>4. x + 1 \in 0..(SECS + (drift + 1))
      BY <1>0, CalendarAssumption
    <3> QED BY <2>1, <3>3, <3>4 DEF T
  <2> QED BY <2>1, <2>2, <2>3 DEF SearchLate
<1>2. CASE EnterEntry \/ SkipDay \/ NoMoreDays \/ ReturnNearest \/ UNCHANGED search_vars
  <2>1. UNCHANGED <<table, start, drift, now_tm, time_delay, nearest_sched_index,
                    nearest_sched_wday>>
    BY <1>2 DEF EnterEntry, SkipDay, NoMoreDays, ReturnNearest, search_vars
  <2> QED BY <2>1 DEF SearchLate
<1>3. CASE ProbeDay
  <2>1. /\ UNCHANGED <<table, start, drift>> /\ now_tm' = Clock /\ search_pc = "day"
        /\ \/ /\ time_delay' = ProbeDelay(Clock)
              /\ nearest_sched_index' = slot /\ nearest_sched_wday' = wday
           \/ UNCHANGED <<time_delay, nearest_sched_index, nearest_sched_wday>>
    BY <1>3 DEF ProbeDay
  <2>2. \E r \in 0..drift' : now_tm' = (start' + r) % WEEK
    <3>1. drift \in 0..drift' /\ now_tm' = (start' + drift) % WEEK
      BY <1>0, <2>1 DEF Clock
    <3> QED BY <3>1
  <2>3. PICK r \in 0..drift : now_tm = (start + r) % WEEK
    BY DEF SearchLate
  <2>4. \E x \in 0..(SECS + drift), k \in Int :
          start + drift + ProbeDelay(Clock)
            = At(wday, table[slot].hour_on, table[slot].minute_on) + x + k * WEEK
    BY <2>1, <2>3, ProbeLate
  <2>5. CASE /\ time_delay' = ProbeDelay(Clock)
             /\ nearest_sched_index' = slot /\ nearest_sched_wday' = wday
    BY <2>1, <2>2, <2>4, <2>5 DEF SearchLate
  <2>6. CASE UNCHANGED <<time_delay, nearest_sched_index, nearest_sched_wday>>
    BY <2>1, <2>2, <2>6 DEF SearchLate
  <2> QED BY <2>1, <2>5, <2>6
<1> QED BY <1>1, <1>2, <1>3 DEF SearchNext, SearchStep

(* A remainder of a number that is not negative is at most the number.       *)
LEMMA RemainderAtMost ==
  ASSUME NEW n \in Nat, n > 0, NEW a \in Nat
  PROVE  a % n <= a
<1> DEFINE q == a \div n
           r == a % n
<1>1. q \in Int /\ r \in 0..(n - 1) /\ a = n * q + r
  OBVIOUS
<1> HIDE DEF q, r
<1>2. q >= 0
  <2> SUFFICES ASSUME q + 1 <= 0 PROVE FALSE
    BY <1>1
  <2>1. (q + 1) * n <= 0 * n
    BY <1>1, ProductMonotone
  <2> QED BY <1>1, <2>1
<1>3. 0 * n <= q * n
  BY <1>1, <1>2, ProductMonotone
<1> QED BY <1>1, <1>3 DEF r

LEMMA LateNeverEarly == SearchTyped /\ SearchLate => NeverEarly
<1> SUFFICES ASSUME SearchTyped, SearchLate, Found PROVE Lateness <= SECS + drift
  BY DEF NeverEarly
<1> DEFINE T == At(nearest_sched_wday, table[nearest_sched_index].hour_on,
                   table[nearest_sched_index].minute_on)
           b == start + drift
<1>0. /\ b \in Nat /\ time_delay \in Int /\ WEEK \in Nat /\ WEEK > 0 /\ drift \in Nat
  BY SampleAssumption, CalendarTypes, CalendarAssumption
     DEF SearchTyped, SearchTypeOK, Instants, NoDelay
<1>1. PICK x \in 0..(SECS + drift), k \in Int : b + time_delay = T + x + k * WEEK
  BY DEF SearchLate, Found
<1>2. T \in Int
  <2>1. /\ nearest_sched_wday \in Weekdays
        /\ table[nearest_sched_index].hour_on \in 0..(HOURS - 1)
        /\ table[nearest_sched_index].minute_on \in 0..(MINS - 1)
    BY DEF SearchTyped, SearchTypeOK, Tables, Entry, Found
  <2> QED BY <2>1, AtRange, CalendarTypes DEF Instants
<1>3. Lateness = ((b % WEEK) + time_delay - T) % WEEK
  BY DEF Lateness, Clock
<1> HIDE DEF T, b
<1>4. ((b % WEEK) + time_delay - T) % WEEK = x % WEEK
  <2> DEFINE y == time_delay - T
             z == k * WEEK
             w == b % WEEK
  <2>1. y \in Int /\ z \in Int /\ w \in Int /\ x \in Int
    BY <1>0, <1>2, CalendarAssumption
  <2>2. w + time_delay - T = w + y
    <3> HIDE DEF w
    <3> QED BY <1>0, <1>2, <2>1
  <2>3. b + time_delay = T + x + z
    BY <1>1
  <2>4. b + y = x + z
    <3> HIDE DEF z
    <3> QED BY <1>0, <1>2, <2>1, <2>3
  <2>5. (w + y) % WEEK = (b + y) % WEEK
    <3> HIDE DEF y, z, w
    <3>1. b \in Int
      BY <1>0
    <3>2. ((b % WEEK) + y) % WEEK = (b + y) % WEEK
      BY <1>0, <2>1, <3>1, RemainderOfSum
    <3> QED BY <3>2 DEF w
  <2>6. (x + z) % WEEK = x % WEEK
    BY <1>0, <2>1, WholeTurns
  <2>7. (b + y) % WEEK = (x + z) % WEEK
    BY <2>4
  <2> HIDE DEF y, z
  <2> QED BY <2>2, <2>5, <2>6, <2>7, Zenon
<1>5. x \in Nat /\ x % WEEK <= x /\ x % WEEK \in Int
  BY <1>0, CalendarAssumption, RemainderAtMost
<1> QED BY <1>0, <1>3, <1>4, <1>5, CalendarAssumption

(* However the clock runs between the probes, the wake-up that is set never   *)
(* comes before the event's minute, and no later than the search took, and   *)
(* a minute (server_schedule.c:53).                                         *)
THEOREM SearchNeverEarly == SearchSpec => []NeverEarly
BY InitSearchTyped, NextSearchTyped, InitSearchLate, NextSearchLate, LateNeverEarly, PTL
   DEF SearchSpec

-----------------------------------------------------------------------------
(* The switch-off the search leaves behind.                                *)

(* A later minute of the day is a later second of it. *)
LEMMA TimeOfDayOrder ==
  ASSUME NEW h \in 0..(HOURS - 1), NEW m \in 0..(MINS - 1),
         NEW h2 \in 0..(HOURS - 1), NEW m2 \in 0..(MINS - 1)
  PROVE  /\ h < h2 => At(0, h, m) < At(0, h2, m2)
         /\ h = h2 /\ m <= m2 => At(0, h, m) <= At(0, h2, m2)
<1> DEFINE M == MINS * SECS
           x == h * M
           x2 == h2 * M
           y == m * SECS
           y2 == m2 * SECS
<1>0. /\ h \in Nat /\ m \in Nat /\ h2 \in Nat /\ m2 \in Nat
      /\ M \in Nat /\ 0 * DAY = 0
      /\ x \in Int /\ x2 \in Int /\ y \in Int /\ y2 \in Int
  BY CalendarTypes, CalendarAssumption, Distribute
<1>1. At(0, h, m) = x + y /\ At(0, h2, m2) = x2 + y2
  <2>1. /\ At(0, h, m) = 0 * DAY + x + y
        /\ At(0, h2, m2) = 0 * DAY + x2 + y2
    BY <1>0, AtSum
  <2> HIDE DEF M, x, x2, y, y2
  <2> QED BY <1>0, <2>1
<1>2. y <= M - SECS /\ 0 <= y2
  <2>1. m * SECS <= (MINS - 1) * SECS /\ (MINS - 1) * SECS = M - SECS
    BY <1>0, CalendarAssumption, ProductMonotone
  <2>2. 0 * SECS <= m2 * SECS
    BY <1>0, CalendarAssumption, ProductMonotone
  <2> QED BY <2>1, <2>2, CalendarAssumption
<1>3. h < h2 => x + M <= x2
  <2> HAVE h < h2
  <2>1. (h + 1) * M <= h2 * M
    BY <1>0, ProductMonotone
  <2>2. (h + 1) * M = h * M + M
    BY <1>0
  <2> QED BY <2>1, <2>2
<1>4. h = h2 /\ m <= m2 => x = x2 /\ y <= y2
  BY <1>0, CalendarAssumption, ProductMonotone
<1> HIDE DEF M, x, x2, y, y2
<1> QED BY <1>0, <1>1, <1>2, <1>3, <1>4, CalendarAssumption

(* The same time on the next day is a day later, whole weeks aside. *)
LEMMA NextDayLater ==
  ASSUME NEW day \in Weekdays, NEW h \in 0..(HOURS - 1), NEW m \in 0..(MINS - 1)
  PROVE  \E k \in Int : At((day + 1) % DAYS, h, m) = At(day, h, m) + DAY + k * WEEK
<1> DEFINE T == At(0, h, m)
           x == day * DAY
           y == (day + 1) * DAY
<1>0. /\ day \in Nat /\ day <= DAYS - 1 /\ h \in Nat /\ m \in Nat
      /\ DAY \in Nat /\ WEEK \in Nat /\ T \in Int /\ DAYS \in Nat /\ DAYS > 0
  BY CalendarTypes, CalendarAssumption, AtRange DEF Weekdays
<1>1. x \in Int /\ y \in Int /\ y = x + DAY
  BY <1>0
<1>2. At(day, h, m) = x + T
  BY <1>0, AtSum
<1>3. CASE day + 1 <= DAYS - 1
  <2>1. (day + 1) % DAYS = day + 1
    BY <1>0, <1>3, SmallRemainder
  <2>2. At(day + 1, h, m) = y + T
    BY <1>0, AtSum
  <2> HIDE DEF T, x, y
  <2>3. At((day + 1) % DAYS, h, m) = At(day, h, m) + DAY + 0 * WEEK
    BY <1>0, <1>1, <1>2, <2>1, <2>2
  <2> QED BY <2>3
<1>4. CASE day + 1 = DAYS
  <2>1. (day + 1) % DAYS = 0
    <3>1. (0 + 1 * DAYS) % DAYS = 0 % DAYS /\ 0 % DAYS = 0
      BY <1>0, WholeTurns, SmallRemainder
    <3> QED BY <1>0, <1>4, <3>1
  <2>2. y = WEEK
    BY <1>4 DEF WEEK
  <2> HIDE DEF T, x, y
  <2>3. At((day + 1) % DAYS, h, m) = At(day, h, m) + DAY + (-1) * WEEK
    BY <1>0, <1>1, <1>2, <2>1, <2>2 DEF T
  <2> QED BY <2>3
<1> QED BY <1>0, <1>3, <1>4

(* An entry ends less than a day after it starts, on the day OffDay gives.    *)
LEMMA OffSoonAfterOn ==
  ASSUME NEW e \in Entry, NEW day \in Weekdays, SpanSeen(e)
  PROVE  (At(OffDay(e, day), e.hour_off, e.minute_off)
            - At(day, e.hour_on, e.minute_on)) % WEEK < DAY
<1> DEFINE x == At(0, e.hour_on, e.minute_on)
           y == At(0, e.hour_off, e.minute_off)
           a == At(day, e.hour_on, e.minute_on)
           b == At(day, e.hour_off, e.minute_off)
           c == At(OffDay(e, day), e.hour_off, e.minute_off)
<1>0. /\ e.hour_on \in 0..(HOURS - 1) /\ e.minute_on \in 0..(MINS - 1)
      /\ e.hour_off \in 0..(HOURS - 1) /\ e.minute_off \in 0..(MINS - 1)
  BY DEF Entry
<1>1. /\ x \in 0..(DAY - 1) /\ y \in 0..(DAY - 1) /\ a \in Int /\ b \in Int
      /\ b - a = y - x /\ DAY \in Nat /\ WEEK \in Nat /\ WEEK >= DAY /\ WEEK > 0
  <2>1. /\ x \in 0..(DAY - SECS) /\ y \in 0..(DAY - SECS)
    BY <1>0, AtRange
  <2>2. DAY \in Nat /\ WEEK \in Nat /\ WEEK > 0
    BY CalendarTypes
  <2>3. day \in Int /\ e.hour_on \in Int /\ e.minute_on \in Int
        /\ e.hour_off \in Int /\ e.minute_off \in Int
    BY <1>0, CalendarAssumption DEF Weekdays
  <2>4. a = day * DAY + x /\ b = day * DAY + y /\ day * DAY \in Int
    <3>1. \A h, m \in Int : At(day, h, m) = day * DAY + At(0, h, m)
      BY <2>3, AtSum
    <3> QED BY <2>2, <2>3, <3>1
  <2>5. 1 * DAY <= DAYS * DAY
    BY <2>2, CalendarAssumption, ProductMonotone
  <2> HIDE DEF x, y, a, b
  <2> QED BY <2>1, <2>2, <2>4, <2>5, CalendarAssumption DEF WEEK
<1>2. CASE e.hour_off < e.hour_on
  <2>1. y < x
    BY <1>0, <1>2, TimeOfDayOrder
  <2>2. PICK k \in Int : c = b + DAY + k * WEEK
    BY <1>0, <1>2, NextDayLater DEF OffDay
  <2> DEFINE z == k * WEEK
             d == DAY + y - x
  <2>3. z \in Int
    BY <1>1
  <2>4. d \in 0..(DAY - 1) /\ d \in 0..(WEEK - 1) /\ c - a = d + z
    <3>1. c = b + DAY + z
      BY <2>2
    <3> HIDE DEF x, y, a, b, c, z
    <3> QED BY <1>1, <2>1, <2>3, <3>1
  <2>5. (d + z) % WEEK = d % WEEK /\ d % WEEK = d
    <3> HIDE DEF d
    <3> QED BY <1>1, <2>4, WholeTurns, SmallRemainder
  <2> HIDE DEF a, b, c, d, z
  <2>6. (c - a) % WEEK = d
    BY <2>4, <2>5
  <2> QED BY <1>1, <2>4, <2>6 DEF a, c
<1>3. CASE ~(e.hour_off < e.hour_on)
  <2>1. x <= y
    BY <1>0, <1>1, <1>3, TimeOfDayOrder, CalendarAssumption DEF SpanSeen
  <2>2. c = b
    BY <1>3 DEF OffDay
  <2> DEFINE d == c - a
  <2>3. d \in 0..(DAY - 1) /\ d \in 0..(WEEK - 1)
    <3> HIDE DEF x, y, a, b, c
    <3> QED BY <1>1, <2>1, <2>2
  <2> HIDE DEF d
  <2>4. d % WEEK = d
    BY <1>1, <2>3, SmallRemainder
  <2> QED BY <1>1, <2>3, <2>4 DEF d
<1> QED BY <1>2, <1>3

(* Only the last step of the search settles the day, from what it found. *)
SearchOff ==
  Found => off_day = OffDay(table[nearest_sched_index], nearest_sched_wday)

LEMMA NextSearchOff == SearchOff /\ [SearchNext]_search_vars => SearchOff'
<1> SUFFICES ASSUME SearchOff, [SearchNext]_search_vars PROVE SearchOff'
  OBVIOUS
<1>1. CASE search_pc' # "done"
  BY <1>1 DEF SearchOff, Found
<1>2. CASE UNCHANGED <<table, nearest_sched_index, nearest_sched_wday, off_day, search_pc>>
  BY <1>2 DEF SearchOff, Found
<1>3. CASE ReturnNearest
  BY <1>3 DEF ReturnNearest, SearchOff, Found
<1> QED
  BY <1>1, <1>2, <1>3
     DEF SearchNext, SearchStep, ClockTick, EnterEntry, SkipDay, NoMoreDays, ProbeDay,
         NextDay, LeaveEntry, search_vars

LEMMA TypedOffWithinADay == SearchTyped /\ SearchOff => OffWithinADay
<1> SUFFICES ASSUME SearchTyped, SearchOff, Found, SpanSeen(table[nearest_sched_index])
             PROVE  LET e == table[nearest_sched_index]
                    IN  (At(off_day, e.hour_off, e.minute_off)
                           - At(nearest_sched_wday, e.hour_on, e.minute_on)) % WEEK < DAY
  BY DEF OffWithinADay
<1>1. table[nearest_sched_index] \in Entry /\ nearest_sched_wday \in Weekdays
  BY DEF SearchTyped, SearchTypeOK, Tables, Found
<1> QED BY <1>1, OffSoonAfterOn DEF SearchOff

(* However the clock runs, the switch-off the scheduler will wait for after   *)
(* the event that was found comes less than a day after it: turn_off_day     *)
(* holds the day an entry over midnight ends on (server_schedule.c:109).     *)
THEOREM SearchOffWithinADay == SearchSpec => []OffWithinADay
<1>1. SearchInit => SearchOff
  BY DEF SearchInit, SearchOff, Found
<1> QED BY <1>1, InitSearchTyped, NextSearchTyped, NextSearchOff, TypedOffWithinADay, PTL
        DEF SearchSpec

-----------------------------------------------------------------------------
(* What the search has found on the way, while the clock stands still.      *)

(* The order among candidates: by delay, then as the loop meets them. *)
Precedes(tbl, c, b, t) ==
  \/ CandidateDelay(tbl, c, t) < CandidateDelay(tbl, b, t)
  \/ /\ CandidateDelay(tbl, c, t) = CandidateDelay(tbl, b, t)
     /\ c[1] < b[1] \/ (c[1] = b[1] /\ c[2] <= b[2])

(* i, w and delay are the event the loop keeps when it has met those of V. *)
BestOf(V, tbl, t, i, w, delay) ==
  /\ i = -1 => delay = NoDelay /\ V = {}
  /\ i # -1 => \E c \in V : /\ i = c[1] /\ w = DayAhead(c[2], t)
                            /\ delay = CandidateDelay(tbl, c, t)
                            /\ \A b \in V : Precedes(tbl, c, b, t)

Visited ==
  {c \in Candidates(table, start) :
     c[1] < slot \/ (search_pc = "day" /\ c[1] = slot /\ c[2] < days_checked)}

(* So far the days of the entry offer nothing but, perhaps, a start that has  *)
(* passed today.                                                            *)
Unbroken(e, n, t) ==
  \A d \in 0..(n - 1) : DayAhead(d, t) \in e.days_of_week => d = 0 /\ OnDelay(e, 0, t) > DAY

SearchBest ==
  drift = 0 =>
    /\ now_tm = start
    /\ search_pc = "day" => /\ table[slot].is_valid
                            /\ wday = DayAhead(days_checked, start)
                            /\ Unbroken(table[slot], days_checked, start)
    /\ search_pc = "done" => slot = MAX_SCHEDULE_ENTRIES
    /\ BestOf(Visited, table, start, nearest_sched_index, nearest_sched_wday, time_delay)

LEMMA InitSearchBest == SearchInit => SearchBest
<1> SUFFICES ASSUME SearchInit PROVE SearchBest
  OBVIOUS
<1>1. table \in Tables /\ start \in Instants
  BY SampleAssumption DEF SearchInit, Tables
<1>2. ASSUME NEW c \in Visited PROVE FALSE
  <2>1. c \in Candidates(table, start) /\ c[1] < 0
    BY <1>2 DEF Visited, SearchInit
  <2>2. c[1] \in Nat
    BY <1>1, <2>1, CandidateDelayType, TableAssumption DEF Slots
  <2> QED BY <2>1, <2>2
<1> QED BY <1>2 DEF SearchInit, SearchBest, BestOf

LEMMA NextDayAhead ==
  ASSUME NEW n \in Nat, NEW t \in Instants
  PROVE  (DayAhead(n, t) + 1) % DAYS = DayAhead(n + 1, t)
<1> DEFINE w == Wday(t)
<1>1. w \in Int
  BY FieldTypes, CalendarAssumption DEF Weekdays
<1> HIDE DEF w
<1>2. w + n \in Int /\ (w + n) + 1 = w + (n + 1)
  BY <1>1
<1>3. (((w + n) % DAYS) + 1) % DAYS = ((w + n) + 1) % DAYS
  <2> DEFINE v == w + n
  <2>1. v \in Int /\ 1 \in Int /\ DAYS \in Nat /\ DAYS > 0
    BY <1>2, CalendarAssumption
  <2> HIDE DEF v
  <2>2. \A b \in Int : ((v % DAYS) + b) % DAYS = (v + b) % DAYS
    BY <2>1, RemainderOfSum
  <2>3. ((v % DAYS) + 1) % DAYS = (v + 1) % DAYS
    BY <2>1, <2>2
  <2> QED BY <2>3 DEF v
<1>4. DayAhead(n, t) = (w + n) % DAYS /\ DayAhead(n + 1, t) = (w + (n + 1)) % DAYS
  BY DEF DayAhead, w
<1>5. ((w + n) + 1) % DAYS = (w + (n + 1)) % DAYS
  BY <1>2
<1> QED BY <1>3, <1>4, <1>5

(* One more candidate: the loop keeps the better one. *)
LEMMA BestOfOneMore ==
  ASSUME NEW tbl \in Tables, NEW t \in Instants,
         NEW V, V \subseteq Candidates(tbl, t), NEW cur \in Candidates(tbl, t),
         \A c \in V : c[1] < cur[1] \/ (c[1] = cur[1] /\ c[2] < cur[2]),
         NEW i, NEW w, NEW delay \in Int, BestOf(V, tbl, t, i, w, delay)
  PROVE  LET d == CandidateDelay(tbl, cur, t)
         IN  IF delay > d
             THEN BestOf(V \cup {cur}, tbl, t, cur[1], DayAhead(cur[2], t), d)
             ELSE BestOf(V \cup {cur}, tbl, t, i, w, delay)
<1> DEFINE D(c) == CandidateDelay(tbl, c, t)
           W == V \cup {cur}
<1>1. \A c \in W : c[1] \in Nat /\ c[2] \in Nat /\ D(c) \in Int
  <2>1. W \subseteq Candidates(tbl, t)
    OBVIOUS
  <2>2. \A c \in Candidates(tbl, t) : c[1] \in Slots /\ c[2] \in Weekdays /\ D(c) \in Int
    BY CandidateDelayType
  <2>3. Slots \subseteq Nat /\ Weekdays \subseteq Nat
    BY TableAssumption, CalendarAssumption DEF Slots, Weekdays
  <2> HIDE DEF D, W
  <2> QED BY <2>1, <2>2, <2>3
<1>2. cur[1] # -1
  BY <1>1
<1>3. D(cur) < NoDelay
  <2> DEFINE e == tbl[cur[1]]
  <2>1. cur[1] \in Slots /\ cur[2] \in Weekdays
    BY CandidateDelayType
  <2>2. /\ DayAhead(cur[2], t) \in Weekdays
        /\ e.hour_on \in 0..(HOURS - 1) /\ e.minute_on \in 0..(MINS - 1)
    BY <2>1, DayAheadType DEF Tables, Entry
  <2>3. D(cur) = CalcDelay(DayAhead(cur[2], t), e.hour_on, e.minute_on, t)
    BY DEF CandidateDelay, OnDelay
  <2> HIDE DEF D, e
  <2>4. D(cur) \in (1 - SECS)..(WEEK - SECS)
    BY <2>2, <2>3, CalcDelayValue
  <2> QED BY <2>4, CalendarTypes, CalendarAssumption DEF NoDelay
<1>4. \A c, b \in W : Precedes(tbl, c, b, t) <=>
        \/ D(c) < D(b)
        \/ D(c) = D(b) /\ (c[1] < b[1] \/ (c[1] = b[1] /\ c[2] <= b[2]))
  BY DEF Precedes
<1> HIDE DEF D
<1>5. CASE delay > D(cur)
  <2>1. \A b \in W : Precedes(tbl, cur, b, t)
    <3> TAKE b \in W
    <3>1. CASE b = cur
      BY <1>1, <1>4, <3>1
    <3>2. CASE b \in V
      <4>1. i # -1
        BY <3>2 DEF BestOf
      <4>2. PICK c \in V : delay = D(c) /\ Precedes(tbl, c, b, t)
        BY <3>2, <4>1 DEF BestOf, D
      <4>3. D(c) <= D(b)
        BY <1>1, <1>4, <3>2, <4>2
      <4> QED BY <1>1, <1>4, <1>5, <3>2, <4>2, <4>3
    <3> QED BY <3>1, <3>2
  <2>2. BestOf(W, tbl, t, cur[1], DayAhead(cur[2], t), D(cur))
    BY <1>2, <2>1 DEF BestOf, D
  <2> QED BY <1>5, <2>2 DEF D
<1>6. CASE ~(delay > D(cur))
  <2>1. i # -1
    BY <1>1, <1>3, <1>6, CalendarTypes DEF BestOf, NoDelay
  <2>2. PICK c \in V : /\ i = c[1] /\ w = DayAhead(c[2], t) /\ delay = D(c)
                       /\ \A b \in V : Precedes(tbl, c, b, t)
    BY <2>1 DEF BestOf, D
  <2>3. Precedes(tbl, c, cur, t)
    <3>1. D(c) <= D(cur)
      BY <1>1, <1>6, <2>2
    <3>2. c[1] < cur[1] \/ (c[1] = cur[1] /\ c[2] <= cur[2])
      BY <1>1
    <3> QED BY <1>1, <1>4, <3>1, <3>2
  <2>4. BestOf(W, tbl, t, i, w, delay)
    BY <2>1, <2>2, <2>3 DEF BestOf, D
  <2> QED BY <1>6, <2>4 DEF D
<1> QED BY <1>5, <1>6

LEMMA NextSearchBest ==
  SearchTyped /\ SearchBest /\ [SearchNext]_search_vars => SearchBest'
<1> SUFFICES ASSUME SearchTyped, SearchBest, [SearchNext]_search_vars, drift' = 0
             PROVE  SearchBest'
  BY DEF SearchBest
<1>0. /\ table \in Tables /\ start \in Instants /\ slot \in Nat /\ days_checked \in Nat
      /\ drift \in Nat /\ time_delay \in Int /\ DAYS \in Nat /\ DAYS > 0
      /\ MAX_SCHEDULE_ENTRIES \in Nat
  BY TableAssumption, CalendarAssumption, CalendarTypes
     DEF SearchTyped, SearchTypeOK, NoDelay
<1>c. \A c \in Candidates(table, start) :
        c[1] \in Nat /\ c[2] \in 0..(DAYS - 1) /\ c = <<c[1], c[2]>>
  BY <1>0, CandidateDelayType, TableAssumption DEF Slots, Weekdays
<1>1. CASE ClockTick
  BY <1>0, <1>1 DEF ClockTick
<1>2. CASE UNCHANGED search_vars
  BY <1>2 DEF search_vars, SearchBest, Visited
<1>3. ASSUME SearchStep PROVE SearchBest'
  <2>0. /\ drift = 0 /\ now_tm = start /\ UNCHANGED <<table, start>>
        /\ search_pc = "day" => /\ table[slot].is_valid
                                /\ wday = DayAhead(days_checked, start)
                                /\ Unbroken(table[slot], days_checked, start)
        /\ BestOf(Visited, table, start, nearest_sched_index, nearest_sched_wday, time_delay)
    BY <1>3 DEF SearchStep, EnterEntry, SkipDay, NoMoreDays, ProbeDay, ReturnNearest, SearchBest
  <2>1. CASE EnterEntry
    <3>1. now_tm' = now_tm
          /\ UNCHANGED <<time_delay, nearest_sched_index, nearest_sched_wday>>
      BY <2>1 DEF EnterEntry
    <3>2. CASE table[slot].is_valid
      <4>1. /\ search_pc = "entry" /\ search_pc' = "day" /\ wday' = Wday(now_tm)
            /\ days_checked' = 0 /\ slot' = slot
        BY <2>1, <3>2 DEF EnterEntry
      <4>2. Wday(start) = DayAhead(0, start)
        <5>1. Wday(start) \in 0..(DAYS - 1)
          BY <1>0, FieldTypes DEF Weekdays
        <5>2. Wday(start) + 0 = Wday(start) /\ Wday(start) % DAYS = Wday(start)
          BY <1>0, <5>1, SmallRemainder
        <5> QED BY <5>2 DEF DayAhead
      <4>3. Visited' = Visited
        BY <1>c, <2>0, <4>1 DEF Visited
      <4>4. Unbroken(table[slot], 0, start)
        BY DEF Unbroken
      <4> QED BY <2>0, <3>1, <3>2, <4>1, <4>2, <4>3, <4>4 DEF SearchBest
    <3>3. CASE ~table[slot].is_valid
      <4>1. search_pc = "entry" /\ search_pc' = "entry" /\ slot' = slot + 1
        BY <2>1, <3>3 DEF EnterEntry
      <4>2. \A c \in Candidates(table, start) : c[1] # slot
        BY <3>3 DEF Candidates
      <4>3. \A c \in Candidates(table, start) : c[1] < slot + 1 <=> c[1] < slot
        BY <1>0, <1>c, <4>2
      <4>4. Visited' = Visited
        BY <2>0, <4>1, <4>3 DEF Visited
      <4> QED BY <2>0, <3>1, <4>1, <4>4 DEF SearchBest
    <3> QED BY <3>2, <3>3
  <2>2. CASE SkipDay
    <3>1. /\ search_pc = "day" /\ search_pc' = "day" /\ slot' = slot
          /\ days_checked' = days_checked + 1 /\ wday' = (wday + 1) % DAYS
          /\ wday \notin table[slot].days_of_week
          /\ UNCHANGED <<now_tm, time_delay, nearest_sched_index, nearest_sched_wday>>
      BY <2>2 DEF SkipDay, NextDay
    <3>2. wday' = DayAhead(days_checked + 1, start)
      BY <1>0, <2>0, <3>1, NextDayAhead
    <3>3. Unbroken(table[slot], days_checked + 1, start)
      <4>1. \A d \in 0..((days_checked + 1) - 1) : d = days_checked \/ d \in 0..(days_checked - 1)
        BY <1>0
      <4> QED BY <2>0, <3>1, <4>1 DEF Unbroken
    <3>4. Visited' = Visited
      <4>1. \A c \in Candidates(table, start) : ~(c[1] = slot /\ c[2] = days_checked)
        BY <2>0, <3>1 DEF Candidates, Checked
      <4>2. \A c \in Candidates(table, start) :
              c[1] = slot => (c[2] < days_checked + 1 <=> c[2] < days_checked)
        BY <1>0, <1>c, <4>1
      <4> QED BY <2>0, <3>1, <4>2 DEF Visited
    <3> QED BY <2>0, <3>1, <3>2, <3>3, <3>4 DEF SearchBest
  <2>3. CASE NoMoreDays
    <3>1. /\ search_pc = "day" /\ search_pc' = "entry" /\ slot' = slot + 1
          /\ days_checked = DAYS
          /\ UNCHANGED <<now_tm, time_delay, nearest_sched_index, nearest_sched_wday>>
      BY <2>3 DEF NoMoreDays, LeaveEntry
    <3>2. Visited' = Visited
      <4>1. \A c \in Candidates(table, start) :
              c[1] < slot + 1 <=> (c[1] < slot \/ (c[1] = slot /\ c[2] < days_checked))
        BY <1>0, <1>c, <3>1
      <4> QED BY <2>0, <3>1, <4>1 DEF Visited
    <3> QED BY <2>0, <3>1, <3>2 DEF SearchBest
  <2>4. CASE ReturnNearest
    <3>1. /\ search_pc = "entry" /\ search_pc' = "done" /\ slot = MAX_SCHEDULE_ENTRIES
          /\ UNCHANGED <<now_tm, slot, time_delay, nearest_sched_index, nearest_sched_wday>>
      BY <2>4 DEF ReturnNearest
    <3>2. Visited' = Visited
      BY <2>0, <3>1 DEF Visited
    <3> QED BY <2>0, <3>1, <3>2 DEF SearchBest
  <2>5. CASE ProbeDay
    <3> DEFINE cur == <<slot, days_checked>>
               e == table[slot]
               delay == CandidateDelay(table, cur, start)
               LastDay == ~(days_checked = 0 /\ delay > DAY)
    <3>1. /\ search_pc = "day" /\ days_checked < DAYS /\ wday \in e.days_of_week
          /\ now_tm' = Clock /\ slot \in Slots /\ days_checked \in Weekdays
      BY <1>0, <2>5 DEF ProbeDay, SearchTyped, SearchTypeOK, Weekdays
    <3>2. Clock = start
      <4>1. start + drift = start /\ start % WEEK = start
        BY <1>0, <2>0, CalendarTypes, SmallRemainder DEF Instants
      <4> QED BY <4>1 DEF Clock
    <3>3. cur \in Candidates(table, start)
      <4>1. days_checked \in Checked(e, start)
        BY <2>0, <3>1 DEF Checked, Unbroken
      <4> QED BY <2>0, <3>1, <4>1 DEF Candidates
    <3>4. ProbeDelay(Clock) = delay
      <4>1. delay = CalcDelay(wday, e.hour_on, e.minute_on, start)
        BY <2>0, <3>1 DEF CandidateDelay, OnDelay
      <4>2. ProbeDelay(Clock) = delay + Second(start) - Second(start)
        BY <2>0, <3>2, <4>1 DEF ProbeDelay
      <4>3. Second(start) \in Int /\ delay \in Int
        BY <1>0, <3>3, FieldTypes, CandidateDelayType, CalendarAssumption
      <4> HIDE DEF delay
      <4> QED BY <4>2, <4>3
    <3>5. /\ IF time_delay > delay
             THEN /\ time_delay' = delay /\ nearest_sched_index' = slot
                  /\ nearest_sched_wday' = wday
             ELSE UNCHANGED <<time_delay, nearest_sched_index, nearest_sched_wday>>
          /\ IF LastDay THEN LeaveEntry ELSE NextDay
      BY <2>5, <3>4 DEF ProbeDay
    <3>6. OnDelay(e, 0, start) = delay \/ days_checked # 0
      BY DEF CandidateDelay
    <3>7. Visited' = Visited \cup {cur}
      <4>1. CASE LastDay
        <5>1. search_pc' = "entry" /\ slot' = slot + 1
          BY <3>5, <4>1 DEF LeaveEntry
        <5>2. ASSUME NEW c \in Candidates(table, start), c[1] = slot
              PROVE  ~(days_checked < c[2])
          <6> SUFFICES ASSUME days_checked < c[2] PROVE FALSE
            OBVIOUS
          <6>1. c[2] \in Checked(e, start) /\ days_checked \in 0..(c[2] - 1)
            BY <1>0, <1>c, <5>2 DEF Candidates
          <6>2. DayAhead(days_checked, start) \in e.days_of_week
            BY <2>0, <3>1
          <6> QED BY <3>6, <4>1, <6>1, <6>2 DEF Checked
        <5>3. \A c \in Candidates(table, start) :
                c[1] < slot + 1 <=>
                  \/ c[1] < slot \/ (c[1] = slot /\ c[2] < days_checked)
                  \/ c = cur
          BY <1>0, <1>c, <5>2
        <5> QED BY <2>0, <3>1, <3>3, <5>1, <5>3 DEF Visited
      <4>2. CASE ~LastDay
        <5>1. search_pc' = "day" /\ slot' = slot /\ days_checked' = days_checked + 1
          BY <3>1, <3>5, <4>2 DEF NextDay
        <5>2. \A c \in Candidates(table, start) :
                c[1] = slot => (c[2] < days_checked + 1 <=> c[2] < days_checked \/ c = cur)
          BY <1>0, <1>c
        <5> QED BY <2>0, <3>1, <3>3, <5>1, <5>2 DEF Visited
      <4> QED BY <4>1, <4>2
    <3>8. BestOf(Visited', table, start, nearest_sched_index', nearest_sched_wday', time_delay')
      <4>1. Visited \subseteq Candidates(table, start)
        BY DEF Visited
      <4>2. \A c \in Visited : c[1] < cur[1] \/ (c[1] = cur[1] /\ c[2] < cur[2])
        BY DEF Visited
      <4>3. IF time_delay > delay
            THEN BestOf(Visited \cup {cur}, table, start, cur[1], DayAhead(cur[2], start), delay)
            ELSE BestOf(Visited \cup {cur}, table, start,
                        nearest_sched_index, nearest_sched_wday, time_delay)
        <5> HIDE DEF cur
        <5> QED BY <1>0, <2>0, <3>3, <4>1, <4>2, BestOfOneMore DEF delay
      <4>4. cur[1] = slot /\ DayAhead(cur[2], start) = wday
        BY <2>0, <3>1
      <4> HIDE DEF cur, delay
      <4> QED BY <3>5, <3>7, <4>3, <4>4
    <3>9. search_pc' # "done" /\ now_tm' = start
      BY <3>1, <3>2, <3>5 DEF LeaveEntry, NextDay
    <3>10. search_pc' = "day" =>
             /\ table[slot'].is_valid /\ wday' = DayAhead(days_checked', start)
             /\ Unbroken(table[slot'], days_checked', start)
      <4> HAVE search_pc' = "day"
      <4>1. ~LastDay /\ NextDay
        BY <3>5 DEF LeaveEntry
      <4>2. slot' = slot /\ days_checked' = days_checked + 1 /\ days_checked = 0
            /\ wday' = (wday + 1) % DAYS
        BY <4>1 DEF NextDay
      <4>3. wday' = DayAhead(days_checked + 1, start)
        BY <1>0, <2>0, <3>1, <4>2, NextDayAhead
      <4>4. Unbroken(e, days_checked + 1, start)
        BY <3>6, <4>1, <4>2 DEF Unbroken
      <4> QED BY <2>0, <3>1, <4>2, <4>3, <4>4
    <3> QED BY <2>0, <3>8, <3>9, <3>10 DEF SearchBest
  <2> QED BY <1>3, <2>1, <2>2, <2>3, <2>4, <2>5 DEF SearchStep
<1> QED BY <1>1, <1>2, <1>3 DEF SearchNext

(* At the end every candidate has been met, and there is one nearest only. *)
LEMMA BestComputes == SearchTyped /\ SearchBest => ComputesNearest
<1> SUFFICES ASSUME SearchTyped, SearchBest, search_pc = "done", drift = 0
             PROVE  IF HasCandidate(table, start)
                    THEN LET c == Nearest(table, start)
                         IN  /\ nearest_sched_index = c[1]
                             /\ nearest_sched_wday = DayAhead(c[2], start)
                             /\ time_delay = CandidateDelay(table, c, start)
                    ELSE nearest_sched_index = -1
  BY DEF ComputesNearest
<1>0. table \in Tables /\ start \in Instants
  BY DEF SearchTyped, SearchTypeOK
<1>1. Visited = Candidates(table, start)
  <2>1. slot = MAX_SCHEDULE_ENTRIES
    BY DEF SearchBest
  <2>2. \A c \in Candidates(table, start) : c[1] < MAX_SCHEDULE_ENTRIES
    BY <1>0, CandidateDelayType, TableAssumption DEF Slots
  <2> QED BY <2>1, <2>2 DEF Visited
<1>2. BestOf(Candidates(table, start), table, start,
             nearest_sched_index, nearest_sched_wday, time_delay)
  BY <1>1 DEF SearchBest
<1>3. CASE HasCandidate(table, start)
  <2> DEFINE n == Nearest(table, start)
  <2>1. nearest_sched_index # -1
    BY <1>2, <1>3 DEF BestOf, HasCandidate
  <2>2. PICK c \in Candidates(table, start) :
               /\ nearest_sched_index = c[1] /\ nearest_sched_wday = DayAhead(c[2], start)
               /\ time_delay = CandidateDelay(table, c, start)
               /\ \A b \in Candidates(table, start) : Precedes(table, c, b, start)
    BY <1>2, <2>1 DEF BestOf
  <2>3. n \in Candidates(table, start) /\ IsNearest(table, n, start)
    BY <1>0, <1>3, NearestExists
  <2> HIDE DEF n
  <2>4. Precedes(table, c, n, start) /\ Precedes(table, n, c, start)
    BY <2>2, <2>3 DEF IsNearest, Precedes
  <2>5. /\ c[1] \in Nat /\ c[2] \in Nat /\ CandidateDelay(table, c, start) \in Int
        /\ n[1] \in Nat /\ n[2] \in Nat /\ CandidateDelay(table, n, start) \in Int
    BY <1>0, <2>3, CandidateDelayType, TableAssumption, CalendarAssumption
       DEF Slots, Weekdays
  <2>6. c[1] = n[1] /\ c[2] = n[2]
        /\ CandidateDelay(table, c, start) = CandidateDelay(table, n, start)
    BY <2>4, <2>5 DEF Precedes
  <2> QED BY <1>3, <2>2, <2>6 DEF n
<1>4. CASE ~HasCandidate(table, start)
  BY <1>2, <1>4 DEF BestOf, HasCandidate
<1> QED BY <1>3, <1>4

(* While the clock stands still, the loop of delay_to_nearest_schedule_ms     *)
(* (server_schedule.c:73) returns what the scheduler's model calls the        *)
(* nearest event, and nothing when no entry can start.                      *)
THEOREM SearchComputesNearest == SearchSpec => []ComputesNearest
BY InitSearchTyped, NextSearchTyped, InitSearchBest, NextSearchBest, BestComputes, PTL
   DEF SearchSpec
-----------------------------------------------------------------------------
(* The schedule page of the app.  As long as the user waits for each refresh  *)
(* one message at most is under way, and it says how the screen and the       *)
(* table differ.                                                           *)

(* What a payload from the page is. *)
Picked == {p \in Payload : Accepted(p) /\ p.days_of_week \in DaySets}

(* An index on the screen, or the next one. *)
Reached(tbl, i) == i \in 0..MAX_SCHEDULE_ENTRIES /\ \A j \in Slots : j < i => tbl[j].is_valid

FromPage(tbl, r) ==
  /\ r \in Request /\ r.action \in Edits
  /\ r.action = UPDATE => Reached(tbl, r.body.index) /\ r.body.payload \in Picked
  /\ r.action # UPDATE => r.body.index \in ValidSlots(tbl)

Proper(tbl) ==
  /\ tbl \in Tables /\ Compact(tbl)
  /\ \A i \in ValidSlots(tbl) : tbl[i].days_of_week \in DaySets

UnderWay(p, a, g, n, l) ==
  posts = p /\ answered = a /\ gets = g /\ answers = n /\ loading = l

Removable(r) ==
  r.action = DEL => Len(schedules) \in Nat /\ r.body.index \in 0..(Len(schedules) - 1)

AtRest == Quiet /\ schedules = Listed(server_table)

Asked ==
  \E r : /\ UnderWay(One(r), EmptyBag, 0, EmptyBag, EmptyBag)
         /\ FromPage(server_table, r) /\ Removable(r)

Confirmed ==
  \E r : /\ UnderWay(EmptyBag, One(r), 0, EmptyBag, EmptyBag)
         /\ Removable(r)

Fetching == UnderWay(EmptyBag, EmptyBag, 1, EmptyBag, EmptyBag)

Coming == UnderWay(EmptyBag, EmptyBag, 0, One(Listed(server_table)), EmptyBag)

Filling ==
  /\ UnderWay(EmptyBag, EmptyBag, 0, EmptyBag, One(Listed(server_table)))
  /\ schedules = <<>>

Stage == \/ AtRest
         \/ dialog = {} /\ (Asked \/ Confirmed \/ Fetching \/ Coming \/ Filling)

PageInv ==
  ~hasty => /\ Proper(server_table)
            /\ \A d \in dialog : Reached(server_table, d.index) /\ d.days \in DaySets
            /\ Stage

(* The bag of one thing. *)
LEMMA BagOfOne ==
  ASSUME NEW x
  PROVE  /\ BagToSet(One(x)) = {x} /\ BagToSet(EmptyBag) = {} /\ One(x) # EmptyBag
         /\ EmptyBag (+) One(x) = One(x)
         /\ One(x) (-) One(x) = EmptyBag
<1>1. One(x) = [e \in {x} |-> 1] /\ EmptyBag = [e \in {} |-> 1]
  BY DEF One, SetToBag, EmptyBag
<1>2. BagToSet(One(x)) = {x} /\ BagToSet(EmptyBag) = {}
  BY <1>1 DEF BagToSet
<1>3. DOMAIN One(x) = {x} /\ DOMAIN EmptyBag = {} /\ One(x)[x] = 1
  BY <1>1
<1>4. EmptyBag (+) One(x) = One(x)
  <2>1. EmptyBag (+) One(x) = [e \in {x} |-> (IF e \in {} THEN EmptyBag[e] ELSE 0) +
                                            (IF e \in {x} THEN One(x)[e] ELSE 0)]
    BY <1>3 DEF (+)
  <2>2. \A e \in {x} : (IF e \in {} THEN EmptyBag[e] ELSE 0) + (IF e \in {x} THEN One(x)[e] ELSE 0) = 1
    BY <1>3
  <2> QED BY <1>1, <2>1, <2>2
<1>5. One(x) (-) One(x) = EmptyBag
  <2> DEFINE B == [e \in {x} |-> IF e \in {x} THEN One(x)[e] - One(x)[e] ELSE One(x)[e]]
  <2>1. One(x) (-) One(x) = [e \in {d \in DOMAIN B : B[d] > 0} |-> B[e]]
    BY <1>3 DEF (-)
  <2>2. DOMAIN B = {x} /\ B[x] = 0
    BY <1>3
  <2> HIDE DEF B
  <2>3. {d \in DOMAIN B : B[d] > 0} = {}
    BY <2>2
  <2> QED BY <1>1, <2>1, <2>3
<1> QED BY <1>2, <1>3, <1>4, <1>5

(* schedule_get_handler lists the entries before the first invalid one, each  *)
(* at its index, with its days.                                             *)
LEMMA Listing ==
  ASSUME NEW tbl \in Tables
  PROVE  /\ Len(Listed(tbl)) \in 0..MAX_SCHEDULE_ENTRIES
         /\ <<>> \o Listed(tbl) = Listed(tbl)
         /\ \A j \in Slots : j < Len(Listed(tbl)) => tbl[j].is_valid
         /\ \A i \in 1..Len(Listed(tbl)) :
              /\ i - 1 \in ValidSlots(tbl)
              /\ Listed(tbl)[i].index = i - 1
              /\ Listed(tbl)[i].dayBitmask = tbl[i - 1].days_of_week
<1> DEFINE First(k) == /\ \A i \in 0..(k - 1) : tbl[i].is_valid
                       /\ k \in Slots => ~tbl[k].is_valid
           n == CHOOSE k \in 0..MAX_SCHEDULE_ENTRIES : First(k)
           Row(i) == [index |-> i - 1, hourOn |-> tbl[i - 1].hour_on,
                      dayBitmask |-> tbl[i - 1].days_of_week, isOn |-> tbl[i - 1].is_on]
<1>1. \E k \in 0..MAX_SCHEDULE_ENTRIES : First(k)
  <2> DEFINE T == {k \in 0..MAX_SCHEDULE_ENTRIES : k \in Slots => ~tbl[k].is_valid}
  <2>1. T \subseteq Nat /\ MAX_SCHEDULE_ENTRIES \in T
    BY TableAssumption DEF Slots
  <2> HIDE DEF T
  <2>2. PICK k \in T : \A y \in T : k <= y
    BY <2>1, LeastNatural
  <2>3. k \in 0..MAX_SCHEDULE_ENTRIES /\ (k \in Slots => ~tbl[k].is_valid)
    BY <2>2 DEF T
  <2>4. \A i \in 0..(k - 1) : i \notin T /\ i \in Slots /\ i \in 0..MAX_SCHEDULE_ENTRIES
    BY <2>1, <2>2, <2>3, TableAssumption DEF Slots
  <2>5. \A i \in 0..(k - 1) : tbl[i].is_valid
    BY <2>4 DEF T
  <2> QED BY <2>3, <2>5
<1>2. n \in 0..MAX_SCHEDULE_ENTRIES /\ First(n)
  BY <1>1
<1>3. Listed(tbl) = [i \in 1..n |-> Row(i)]
  BY DEF Listed
<1> HIDE DEF n, Row
<1>4. n \in Nat /\ \A i \in 1..n : i - 1 \in ValidSlots(tbl)
  BY <1>2, TableAssumption DEF ValidSlots, Slots
<1> DEFINE R == {Row(i) : i \in 1..n}
<1>5. Listed(tbl) \in [1..n -> R]
  BY <1>3
<1> HIDE DEF R
<1>6. Listed(tbl) \in Seq(R) /\ Len(Listed(tbl)) = n
  <2>1. Listed(tbl) \in Seq(R)
    BY <1>4, <1>5, SeqDef
  <2>2. Len(Listed(tbl)) \in Nat /\ 1..Len(Listed(tbl)) = 1..n
    BY <1>5, <2>1, LenProperties
  <2> QED BY <1>4, <2>1, <2>2
<1>7. <<>> \o Listed(tbl) = Listed(tbl)
  BY <1>6, ConcatEmptySeq
<1>8. \A j \in Slots : j < n => tbl[j].is_valid
  BY <1>2 DEF Slots
<1>9. \A i \in 1..n : Listed(tbl)[i] = Row(i)
  BY <1>3
<1>10. \A i \in 1..n : Row(i).index = i - 1 /\ Row(i).dayBitmask = tbl[i - 1].days_of_week
  BY DEF Row
<1> QED BY <1>2, <1>4, <1>6, <1>7, <1>8, <1>9, <1>10

(* A mask turned around twice is the mask. *)
LEMMA MirroredTwice ==
  ASSUME NEW days \in SUBSET Weekdays
  PROVE  Mirrored(Mirrored(days)) = days
<1>1. \A d \in days : DAYS - 1 - (DAYS - 1 - d) = d
  BY CalendarAssumption DEF Weekdays
<1> QED BY <1>1 DEF Mirrored

LEMMA PickedPayload ==
  ASSUME NEW d, d.days \in DaySets, NEW h \in Hours, NEW n, NEW on
  PROVE  PayloadOf([index |-> n, hourOn |-> h, dayBitmask |-> Fold(d.days), isOn |-> on])
           \in Picked
<1> DEFINE s == [index |-> n, hourOn |-> h, dayBitmask |-> Fold(d.days), isOn |-> on]
           p == PayloadOf(s)
<1>1. d.days \in SUBSET Weekdays /\ h \in 0..(HOURS - 1)
  BY ScheduleAppAssumption
<1>2. p = [hour_on |-> h, minute_on |-> 0, hour_off |-> h, minute_off |-> 1,
           days_of_week |-> d.days]
  BY <1>1, MirroredTwice DEF PayloadOf, Fold, Digits
<1> HIDE DEF p, s
<1>3. p \in Payload
  BY <1>1, <1>2, CalendarAssumption, ScheduleAppAssumption DEF Payload
<1>4. /\ p.hour_on < HOURS /\ p.minute_on < MINS /\ p.hour_off < HOURS /\ p.minute_off < MINS
      /\ p.days_of_week = d.days
  BY <1>1, <1>2, CalendarAssumption, ScheduleAppAssumption
<1>5. \A g \in TimeFields : p[g] < Limit[g]
  BY <1>4 DEF TimeFields, Limit
<1>6. Accepted(p)
  BY <1>5 DEF Accepted, Stored
<1> QED BY <1>3, <1>4, <1>6 DEF Picked, p, s

(* The server grants what the page asks for, and keeps the table proper. *)
LEMMA Granted ==
  ASSUME NEW tbl, Proper(tbl), NEW r, FromPage(tbl, r)
  PROVE  /\ Answer(tbl, r.action, r.body) = ESP_OK
         /\ Proper(Edited(tbl, r.action, r.body))
<1> DEFINE after == Edited(tbl, r.action, r.body)
           i == r.body.index
           p == r.body.payload
<1>0. /\ tbl \in Tables /\ r.body \in Body /\ r.action \in Edits
      /\ \A j \in Slots : tbl[j] \in Entry
  BY DEF Proper, FromPage, Request, Tables
<1>1. CASE r.action = UPDATE
  <2>1. /\ i \in 0..MAX_SCHEDULE_ENTRIES /\ i # NewIndex /\ i # BadIndex
        /\ \A j \in Slots : j < i => tbl[j].is_valid
        /\ p \in Payload /\ Accepted(p) /\ p.days_of_week \in DaySets
    BY <1>1, TableAssumption DEF FromPage, Reached, Picked, NewIndex, BadIndex
  <2>2. Answer(tbl, r.action, r.body) = ESP_OK
    BY <1>1, <2>1 DEF Answer, UPDATE, TOGGLE, DEL
  <2>3. after = IF i \in Slots THEN [tbl EXCEPT ![i] = TransferData(tbl[i], p)] ELSE tbl
    BY <1>1, <2>1 DEF Edited, UpdatedBy, Updates, UpdateSlot, UPDATE, TOGGLE, DEL
  <2>4. after \in Tables
    BY <1>0, EditedType
  <2> HIDE DEF after, i, p
  <2>5. CASE i \in Slots
    <3>1. /\ TransferData(tbl[i], p).is_valid
          /\ TransferData(tbl[i], p).days_of_week = p.days_of_week
      BY <1>0, <2>1, <2>5, TransferDataStores
    <3>2. \A j \in Slots : after[j] = IF j = i THEN TransferData(tbl[i], p) ELSE tbl[j]
      BY <1>0, <2>3, <2>5 DEF Tables
    <3>3. \A j \in Slots : j = i \/ after[j] = tbl[j]
      BY <3>2
    <3>4. after[i].is_valid /\ after[i].days_of_week \in DaySets
      BY <2>1, <2>5, <3>1, <3>2
    <3>5. ASSUME NEW a \in Slots, NEW b \in Slots, a < b, after[b].is_valid
          PROVE  after[a].is_valid
      <4>1. b = i => tbl[a].is_valid
        BY <2>1, <3>5
      <4>2. b # i => tbl[a].is_valid
        BY <3>3, <3>5 DEF Proper, Compact
      <4> QED BY <3>3, <3>4, <4>1, <4>2
    <3>6. \A j \in ValidSlots(after) : after[j].days_of_week \in DaySets
      BY <3>3, <3>4 DEF Proper, ValidSlots
    <3> QED BY <2>2, <2>4, <3>5, <3>6 DEF Proper, Compact, after
  <2>6. CASE i \notin Slots
    BY <2>2, <2>3, <2>6 DEF after
  <2> QED BY <2>5, <2>6
<1>2. CASE r.action = TOGGLE
  <2>1. i \in ValidSlots(tbl) /\ i \in Slots /\ tbl[i].is_valid
    BY <1>2 DEF FromPage, UPDATE, TOGGLE, ValidSlots
  <2>2. Answer(tbl, r.action, r.body) = ESP_OK
    BY <1>2, <2>1 DEF Answer, UPDATE, TOGGLE
  <2>3. after = [tbl EXCEPT ![i].is_on = ~@]
    BY <1>2, <2>1 DEF Edited, ToggledBy, Toggled, UPDATE, TOGGLE, DEL
  <2>4. after \in Tables
    BY <1>0, EditedType
  <2> HIDE DEF after, i, p
  <2>5. \A j \in Slots : /\ after[j].is_valid = tbl[j].is_valid
                         /\ after[j].days_of_week = tbl[j].days_of_week
    BY <1>0, <2>3 DEF Tables, Entry
  <2>6. Proper(after)
    BY <2>4, <2>5 DEF Proper, Compact, ValidSlots
  <2> QED BY <2>2, <2>6 DEF after
<1>3. CASE r.action = DEL
  <2>1. i \in ValidSlots(tbl) /\ i \in Slots
    BY <1>3 DEF FromPage, UPDATE, DEL, ValidSlots
  <2>2. Answer(tbl, r.action, r.body) = ESP_OK
    BY <1>3, <2>1 DEF Answer, UPDATE, TOGGLE, DEL
  <2>3. after = Deleted(tbl, i)
    BY <1>3, <2>1 DEF Edited, DeletedBy, UPDATE, TOGGLE, DEL
  <2>4. after \in Tables
    BY <1>0, EditedType
  <2>5. Compact(after)
    BY <1>0, <2>1, <2>3, DeletionStaysCompact DEF Proper
  <2>6. ASSUME NEW j \in Slots, after[j].is_valid
        PROVE  after[j].days_of_week \in DaySets
    <3> HIDE DEF i, after
    <3> DEFINE freed == [tbl EXCEPT ![i].is_valid = FALSE]
    <3>1. \E m \in Slots : after[j] = freed[m]
      <4> DEFINE k == Rounds(freed, i)
      <4>1. /\ freed \in Tables /\ k \in Nat
            /\ j < i => after[j] = tbl[j]
            /\ j >= i /\ j < i + k => after[j] = freed[Last(2 * j - i + 1)]
            /\ j >= i + k => after[j] = freed[Last(j + k)]
        BY <1>0, <2>1, <2>3, DeletedSlots
      <4>2. j < i => freed[j] = tbl[j]
        BY <1>0, <2>1 DEF Tables, Slots
      <4>3. \A m \in Nat : Last(m) \in Slots
        BY TableAssumption DEF Last, Slots
      <4> HIDE DEF freed, k
      <4>4. CASE j < i
        BY <4>1, <4>2, <4>4
      <4>5. CASE j >= i /\ j < i + k
        <5>1. 2 * j - i + 1 \in Nat
          BY <2>1, <4>5 DEF Slots
        <5> QED BY <4>1, <4>3, <4>5, <5>1
      <4>6. CASE j >= i + k
        <5>1. j + k \in Nat
          BY <4>1 DEF Slots
        <5> QED BY <4>1, <4>3, <4>6, <5>1
      <4> QED BY <2>1, <4>1, <4>4, <4>5, <4>6 DEF Slots
    <3>2. \A m \in Slots : /\ freed[m].is_valid => tbl[m].is_valid
                           /\ freed[m].days_of_week = tbl[m].days_of_week
      BY <1>0, <2>1 DEF Tables, Entry
    <3> HIDE DEF freed
    <3> QED BY <2>6, <3>1, <3>2 DEF Proper, ValidSlots
  <2> HIDE DEF after, i, p
  <2>7. Proper(after)
    BY <2>4, <2>5, <2>6 DEF Proper, ValidSlots
  <2> QED BY <2>2, <2>7 DEF after
<1> QED BY <1>0, <1>1, <1>2, <1>3 DEF Edits

(* A message of one kind is under way in one stage only.                      *)
LEMMA StageOf ==
  ASSUME Stage
  PROVE  /\ BagToSet(posts) # {} => dialog = {} /\ Asked
         /\ BagToSet(answered) # {} => dialog = {} /\ Confirmed
         /\ gets > 0 => dialog = {} /\ Fetching
         /\ BagToSet(answers) # {} => dialog = {} /\ Coming
         /\ BagToSet(loading) # {} => dialog = {} /\ Filling
         /\ Quiet => AtRest
<1>1. BagToSet(EmptyBag) = {} /\ \A x : One(x) # EmptyBag
  BY BagOfOne
<1>2. CASE AtRest
  BY <1>1, <1>2 DEF AtRest, Quiet
<1>3. CASE dialog = {} /\ Asked
  BY <1>1, <1>3 DEF Asked, UnderWay, Quiet
<1>4. CASE dialog = {} /\ Confirmed
  BY <1>1, <1>4 DEF Confirmed, UnderWay, Quiet
<1>5. CASE dialog = {} /\ Fetching
  BY <1>1, <1>5 DEF Fetching, UnderWay, Quiet
<1>6. CASE dialog = {} /\ Coming
  BY <1>1, <1>6 DEF Coming, UnderWay, Quiet
<1>7. CASE dialog = {} /\ Filling
  BY <1>1, <1>7 DEF Filling, UnderWay, Quiet
<1> QED BY <1>2, <1>3, <1>4, <1>5, <1>6, <1>7 DEF Stage

LEMMA PageInvInit == PageInit => PageInv
<1> SUFFICES ASSUME PageInit PROVE PageInv
  OBVIOUS
<1>1. EmptyTable \in Tables /\ \A i \in Slots : ~EmptyTable[i].is_valid
  <2>1. ZeroEntry \in Entry /\ ~ZeroEntry.is_valid
    BY CalendarAssumption DEF ZeroEntry, Entry
  <2> QED BY <2>1 DEF EmptyTable, Tables
<1>2. Proper(server_table)
  BY <1>1 DEF PageInit, Proper, Compact, ValidSlots
<1>3. dialog = {} /\ Fetching
  BY DEF PageInit, Fetching, UnderWay
<1> QED BY <1>2, <1>3 DEF PageInv, Stage

(* What the user who waits finds: a screen that shows the table.              *)
LEMMA Waited ==
  ASSUME PageInv, MayEdit, ~hasty'
  PROVE  /\ ~hasty /\ Quiet /\ schedules = Listed(server_table)
         /\ Proper(server_table) /\ server_table \in Tables
         /\ \A d \in dialog : Reached(server_table, d.index) /\ d.days \in DaySets
         /\ Len(schedules) \in Nat /\ Reached(server_table, Len(schedules))
         /\ \A i \in 1..Len(schedules) :
              /\ i - 1 \in ValidSlots(server_table)
              /\ schedules[i].index = i - 1
              /\ schedules[i].dayBitmask \in DaySets
              /\ Reached(server_table, i - 1)
<1>1. ~hasty /\ Quiet
  BY DEF MayEdit
<1>2. /\ Proper(server_table) /\ server_table \in Tables /\ Stage
      /\ \A d \in dialog : Reached(server_table, d.index) /\ d.days \in DaySets
  BY <1>1 DEF PageInv, Proper
<1>3. schedules = Listed(server_table)
  BY <1>1, <1>2, StageOf DEF AtRest
<1>4. /\ Len(schedules) \in 0..MAX_SCHEDULE_ENTRIES
      /\ \A j \in Slots : j < Len(schedules) => server_table[j].is_valid
      /\ \A i \in 1..Len(schedules) :
           /\ i - 1 \in ValidSlots(server_table)
           /\ schedules[i].index = i - 1
           /\ schedules[i].dayBitmask = server_table[i - 1].days_of_week
  BY <1>2, <1>3, Listing
<1>5. \A i \in 1..Len(schedules) : schedules[i].dayBitmask \in DaySets
  BY <1>2, <1>4 DEF Proper
<1>6. Reached(server_table, Len(schedules))
  BY <1>4 DEF Reached
<1>7. \A i \in 1..Len(schedules) : Reached(server_table, i - 1)
  BY <1>4, TableAssumption DEF Reached, Slots
<1>8. Len(schedules) \in Nat
  BY <1>4, TableAssumption
<1> QED BY <1>1, <1>2, <1>3, <1>4, <1>5, <1>6, <1>7, <1>8

(* A request posted while all is quiet is the one thing under way.            *)
LEMMA Posted ==
  ASSUME Quiet, NEW action, NEW index, NEW payload, Post(action, index, payload),
         UNCHANGED <<answered, gets, answers, loading, server_table>>, dialog' = {},
         Proper(server_table),
         FromPage(server_table,
                  [action |-> action, body |-> [index |-> index, payload |-> payload]]),
         Removable([action |-> action, body |-> [index |-> index, payload |-> payload]])'
  PROVE  PageInv'
<1> DEFINE r == [action |-> action, body |-> [index |-> index, payload |-> payload]]
<1>1. posts' = One(r)
  BY BagOfOne DEF Post, Quiet
<1>2. UnderWay(One(r), EmptyBag, 0, EmptyBag, EmptyBag)'
  BY <1>1 DEF UnderWay, Quiet
<1>3. FromPage(server_table', r) /\ Removable(r)' /\ Proper(server_table')
  OBVIOUS
<1> HIDE DEF r
<1>4. Asked'
  BY <1>2, <1>3 DEF Asked
<1> QED BY <1>3, <1>4 DEF PageInv, Stage

LEMMA Unedited == NoBody.payload \in Payload
BY CalendarAssumption DEF NoBody, Payload

LEMMA PageInvUser ==
  ASSUME PageInv, User
  PROVE  PageInv'
<1> SUFFICES ASSUME ~hasty' PROVE PageInv'
  BY DEF PageInv
<1>1. CASE OpenNew
  <2>1. /\ MayEdit
        /\ UNCHANGED <<schedules, posts, answered, gets, answers, loading, server_table>>
    BY <1>1 DEF OpenNew, net_vars
  <2>2. \A d \in dialog' : d.index = Len(schedules) /\ d.days \in DaySets
    BY <1>1 DEF OpenNew
  <2> QED BY <2>1, <2>2, Waited DEF PageInv, Stage, AtRest, Quiet
<1>2. CASE Save
  <2>1. MayEdit /\ dialog' = {} /\ UNCHANGED <<answered, gets, answers, loading, server_table>>
    BY <1>2 DEF Save, UserEdits
  <2>2. PICK d \in dialog, h \in Hours :
          Post(UPDATE, d.index, PayloadOf([index |-> d.index, hourOn |-> h,
                                           dayBitmask |-> Fold(d.days), isOn |-> d.isOn]))
    BY <1>2 DEF Save
  <2> DEFINE p == PayloadOf([index |-> d.index, hourOn |-> h,
                             dayBitmask |-> Fold(d.days), isOn |-> d.isOn])
             r == [action |-> UPDATE, body |-> [index |-> d.index, payload |-> p]]
  <2>3. d.days \in DaySets /\ Reached(server_table, d.index)
    BY <2>1, Waited
  <2>4. p \in Picked
    BY <2>3, PickedPayload
  <2>5. Post(UPDATE, d.index, p)
    BY <2>2
  <2> HIDE DEF p
  <2>6. r \in Request /\ r.action = UPDATE /\ r.body.index = d.index /\ r.body.payload = p
    BY <2>3, <2>4 DEF Request, Body, Picked, Edits, Reached
  <2>7. UPDATE \in Edits /\ UPDATE # DEL
    BY DEF Edits, UPDATE, DEL
  <2>8. FromPage(server_table, r)
    BY <2>3, <2>4, <2>6, <2>7 DEF FromPage
  <2>9. Removable(r)'
    BY <2>6, <2>7 DEF Removable
  <2>10. Quiet /\ Proper(server_table)
    BY <2>1, Waited
  <2> QED BY <2>1, <2>5, <2>8, <2>9, <2>10, Posted
<1>3. ASSUME NEW i \in 1..Len(schedules), OpenEdit(i)
      PROVE  PageInv'
  <2>1. /\ MayEdit
        /\ UNCHANGED <<schedules, posts, answered, gets, answers, loading, server_table>>
    BY <1>3 DEF OpenEdit, net_vars
  <2>2. \A d \in dialog' : d.index = i - 1 /\ d.days = schedules[i].dayBitmask
    BY <1>3 DEF OpenEdit
  <2> QED BY <2>1, <2>2, Waited DEF PageInv, Stage, AtRest, Quiet
<1>4. ASSUME NEW i \in 1..Len(schedules), Toggle(i)
      PROVE  PageInv'
  <2> DEFINE r == [action |-> TOGGLE, body |-> [index |-> i - 1, payload |-> NoBody.payload]]
  <2>1. /\ MayEdit /\ dialog' = {} /\ Post(TOGGLE, i - 1, NoBody.payload)
        /\ UNCHANGED <<answered, gets, answers, loading, server_table>>
    BY <1>4 DEF Toggle, UserEdits
  <2>2. /\ Quiet /\ Proper(server_table)
        /\ i - 1 \in ValidSlots(server_table) /\ Reached(server_table, i - 1)
    BY <2>1, Waited
  <2>3. TOGGLE \in Edits /\ TOGGLE # DEL /\ TOGGLE # UPDATE
    BY DEF Edits, UPDATE, TOGGLE, DEL
  <2>4. r \in Request /\ r.action = TOGGLE /\ r.body.index = i - 1
    BY <2>2, <2>3, Unedited DEF Request, Body, Reached
  <2>5. FromPage(server_table, r) /\ Removable(r)'
    BY <2>2, <2>3, <2>4 DEF FromPage, Removable
  <2> QED BY <2>1, <2>2, <2>5, Posted
<1>5. ASSUME NEW i \in 1..Len(schedules), Delete(i)
      PROVE  PageInv'
  <2> DEFINE r == [action |-> DEL, body |-> [index |-> i - 1, payload |-> NoBody.payload]]
  <2>1. /\ MayEdit /\ dialog = {} /\ Post(DEL, schedules[i].index, NoBody.payload)
        /\ UNCHANGED <<schedules, dialog, answered, gets, answers, loading, server_table>>
    BY <1>5 DEF Delete, UserEdits
  <2>2. /\ Quiet /\ Proper(server_table) /\ schedules[i].index = i - 1
        /\ i - 1 \in ValidSlots(server_table) /\ Reached(server_table, i - 1)
        /\ Len(schedules) \in Nat
    BY <2>1, Waited
  <2>3. DEL \in Edits /\ DEL # UPDATE
    BY DEF Edits, UPDATE, DEL
  <2>4. r \in Request /\ r.action = DEL /\ r.body.index = i - 1
    BY <2>2, <2>3, Unedited DEF Request, Body, Reached
  <2>5. FromPage(server_table, r)
    BY <2>2, <2>3, <2>4 DEF FromPage
  <2>6. Removable(r)'
    BY <2>1, <2>2, <2>4 DEF Removable
  <2>7. Post(DEL, i - 1, NoBody.payload)
    BY <2>1, <2>2
  <2> QED BY <2>1, <2>2, <2>5, <2>6, <2>7, Posted
<1> QED BY <1>1, <1>2, <1>3, <1>4, <1>5 DEF User

LEMMA PageInvProgress ==
  ASSUME PageInv, Progress
  PROVE  PageInv'
<1>1. UNCHANGED <<dialog, hasty>>
  BY DEF Progress, ServePost, ServeGet, Refresh, FinishDelete, Clear, AddAll, app_vars,
         history_vars
<1> SUFFICES ASSUME ~hasty' PROVE PageInv'
  BY DEF PageInv
<1>2. /\ Proper(server_table) /\ server_table \in Tables /\ Stage
  BY <1>1 DEF PageInv, Proper
<1> USE BagOfOne
<1>3. CASE ServePost
  <2>1. PICK request \in BagToSet(posts) :
          Serve(request) /\ UNCHANGED <<schedules, gets, answers, loading>>
    BY <1>3 DEF ServePost, app_vars
  <2>2. dialog = {} /\ Asked
    BY <1>2, <2>1, StageOf
  <2>3. PICK r : /\ UnderWay(One(r), EmptyBag, 0, EmptyBag, EmptyBag)
                 /\ FromPage(server_table, r) /\ Removable(r)
    BY <2>2 DEF Asked
  <2>4. request = r
    BY <2>1, <2>3 DEF UnderWay
  <2>5. /\ Answer(server_table, r.action, r.body) = ESP_OK
        /\ Proper(Edited(server_table, r.action, r.body))
    BY <1>2, <2>3, Granted
  <2>6. Succeeds(r)
    BY <2>5 DEF Succeeds, ESP_OK, ERR_SCHED_FULL, ERR_WRONG_FORMAT
  <2>7. Proper(server_table')
    BY <2>1, <2>4, <2>5 DEF Serve
  <2>8. UnderWay(EmptyBag, One(r), 0, EmptyBag, EmptyBag)'
    BY <2>1, <2>3, <2>4, <2>6 DEF Serve, UnderWay
  <2>9. Removable(r)'
    BY <2>1, <2>3 DEF Removable
  <2> QED BY <1>1, <2>2, <2>7, <2>8, <2>9 DEF PageInv, Stage, Confirmed
<1>4. CASE ServeGet
  <2>1. dialog = {} /\ Fetching /\ server_table' = server_table
    BY <1>2, <1>4, StageOf DEF ServeGet
  <2>2. Coming'
    BY <1>4, <2>1 DEF ServeGet, Fetching, Coming, UnderWay
  <2> QED BY <1>1, <1>2, <2>1, <2>2 DEF PageInv, Stage
<1>5. CASE Refresh
  <2>1. PICK request \in BagToSet(answered) :
          /\ answered' = answered (-) One(request) /\ gets' = gets + 1
          /\ UNCHANGED <<posts, answers, loading, server_table>>
    BY <1>5 DEF Refresh
  <2>2. dialog = {} /\ Confirmed
    BY <1>2, <2>1, StageOf
  <2>3. PICK r : UnderWay(EmptyBag, One(r), 0, EmptyBag, EmptyBag)
    BY <2>2 DEF Confirmed
  <2>4. request = r
    BY <2>1, <2>3 DEF UnderWay
  <2>5. Fetching'
    BY <2>1, <2>3, <2>4 DEF Fetching, UnderWay
  <2> QED BY <1>1, <1>2, <2>1, <2>2, <2>5 DEF PageInv, Stage
<1>6. CASE FinishDelete
  <2>1. PICK request \in BagToSet(answered) :
          /\ request.action = DEL /\ answered' = answered (-) One(request)
          /\ RemoveListed(request.body.index)
          /\ UNCHANGED <<posts, answers, loading, server_table>>
    BY <1>6 DEF FinishDelete
  <2>2. dialog = {} /\ Confirmed
    BY <1>2, <2>1, StageOf
  <2>3. PICK r : UnderWay(EmptyBag, One(r), 0, EmptyBag, EmptyBag) /\ Removable(r)
    BY <2>2 DEF Confirmed
  <2>4. request = r
    BY <2>1, <2>3 DEF UnderWay
  <2>5. Len(schedules) \in Nat /\ request.body.index \in 0..(Len(schedules) - 1)
    BY <2>1, <2>3, <2>4 DEF Removable
  <2>6. gets' = gets + 1
    BY <2>1, <2>5 DEF RemoveListed
  <2>7. Fetching'
    BY <2>1, <2>3, <2>4, <2>6 DEF Fetching, UnderWay
  <2> QED BY <1>1, <1>2, <2>1, <2>2, <2>7 DEF PageInv, Stage
<1>7. CASE Clear
  <2>1. PICK list \in BagToSet(answers) :
          /\ schedules' = <<>> /\ answers' = answers (-) One(list)
          /\ loading' = loading (+) One(list)
          /\ UNCHANGED <<posts, answered, gets, server_table>>
    BY <1>7 DEF Clear
  <2>2. dialog = {} /\ Coming
    BY <1>2, <2>1, StageOf
  <2>3. list = Listed(server_table)
    BY <2>1, <2>2 DEF Coming, UnderWay
  <2>4. Filling'
    BY <2>1, <2>2, <2>3 DEF Coming, Filling, UnderWay
  <2> QED BY <1>1, <1>2, <2>1, <2>2, <2>4 DEF PageInv, Stage
<1>8. CASE AddAll
  <2>1. PICK list \in BagToSet(loading) :
          /\ schedules' = schedules \o list /\ loading' = loading (-) One(list)
          /\ UNCHANGED <<posts, answered, gets, answers, server_table>>
    BY <1>8 DEF AddAll
  <2>2. dialog = {} /\ Filling
    BY <1>2, <2>1, StageOf
  <2>3. list = Listed(server_table)
    BY <2>1, <2>2 DEF Filling, UnderWay
  <2>4. schedules' = Listed(server_table')
    BY <1>2, <2>1, <2>2, <2>3, Listing DEF Filling
  <2>5. Quiet'
    BY <2>1, <2>2, <2>3 DEF Filling, UnderWay, Quiet
  <2> QED BY <1>1, <1>2, <2>1, <2>2, <2>4, <2>5 DEF PageInv, Stage, AtRest
<1> QED BY <1>3, <1>4, <1>5, <1>6, <1>7, <1>8 DEF Progress

LEMMA PageInvStep == PageInv /\ [PageNext]_page_vars => PageInv'
<1> SUFFICES ASSUME PageInv, [PageNext]_page_vars PROVE PageInv'
  OBVIOUS
<1>1. CASE UNCHANGED page_vars
  BY <1>1 DEF page_vars, PageInv, Stage, AtRest, Quiet, Asked, Confirmed, Fetching, Coming,
              Filling, UnderWay, Removable
<1> QED BY <1>1, PageInvUser, PageInvProgress DEF PageNext

LEMMA PageInvAlways == PageSpec => []PageInv
BY PageInvInit, PageInvStep, PTL DEF PageSpec

(* When a user who waits for each refresh sees everything settle, the list on *)
(* the screen is the server's (ScheduleViewModel.kt:62, uri_handlers.c:121).   *)
THEOREM ListAlwaysAgrees == PageSpec => []ListAgrees
<1>1. PageInv => ListAgrees
  BY StageOf DEF PageInv, ListAgrees, AtRest
<1> QED BY <1>1, PageInvAlways, PTL

(* ... and it is the whole table: the index the app makes up for a new         *)
(* schedule (SchedulePage.kt:40) never leaves a gap for the listing to stop at. *)
THEOREM EntriesAlwaysListed == PageSpec => []EntriesListed
<1>1. PageInv => EntriesListed
  BY DEF PageInv, EntriesListed, Proper
<1> QED BY <1>1, PageInvAlways, PTL

(* The table never holds days the user did not pick: the three turns a mask    *)
(* takes (ScheduleEditDialog.kt:128, ScheduleViewModel.kt:47,                  *)
(* server_schedule.c:206) cancel for every number of days.                     *)
THEOREM DaysAlwaysAsPicked == PageSpec => []DaysAsPicked
<1>1. PageInv => DaysAsPicked
  BY DEF PageInv, DaysAsPicked, Proper
<1> QED BY <1>1, PageInvAlways, PTL
=============================================================================
