--------------------------- MODULE TimerIsrProofs --------------------------
(***************************************************************************)
(* What TimerIsr guarantees for any width of Count, any period and any     *)
(* number of tasks: the interrupt comes when it is due, a task keeps its   *)
(* registers across it, and the cycles it executes are accounted to it.    *)
(***************************************************************************)
EXTENDS TimerIsr, SequenceTheorems, FiniteSetTheorems, TLAPS

\* The timer as long as nothing has come too late: Compare is the low part of
\* the time the next interrupt is due, which is never more than a period away;
\* before the initialisation the flag can only come from the Compare of reset.
TimerOnTime ==
    /\ ~systick.initialized =>
            compare = CountModulus - 1 /\ (CTIF => cycles >= CountModulus - 1)
    /\ systick.initialized /\ late = {} =>
            /\ systick.period = Period
            /\ compare = due % CountModulus
            /\ due <= cycles + Period
            /\ cycles < due + Period => (CTIF \/ isr = "timer" <=> cycles >= due)

\* The account of the running task was opened when its slice began, and no
\* account holds more than the time that has gone by.
AccountOpen ==
    /\ stamped <= cycles
    /\ \A t \in Task : total_cycles[t] <= cycles /\ executed[t] <= cycles
    /\ current_task # NULL /\ isr \notin {"resume", "lost"} =>
            /\ last_count[current_task] = stamped % CountModulus
            /\ total_cycles[current_task] <= stamped

\* What a task has executed is accounted to it, but for the present slice.
ExecutedAccounted ==
    ~overlong => \A t \in Range(ring) :
        executed[t] <= total_cycles[t] +
            (IF t = current_task /\ isr # "resume" THEN cycles - stamped ELSE 0)

\* A context holds the registers its task had, or those of its beginning.
Saved(t) ==
    IF executed[t] > 0
    THEN /\ \A r \in (General \ {"at"}) \cup {"status"} : context[t][r] = <<t, r>>
         /\ context[t].epc = <<t, "pc">>
    ELSE /\ context[t].epc = <<t, "entry">> /\ context[t].a0 = <<t, "arg">>
         /\ context[t].sp = <<t, "stack_top">>
         /\ context[t].ra = <<"kernel", "task_exit_handler">>
         /\ context[t].status = <<"kernel", "IE">>

\* Whoever does not run at the moment has its registers in its context.
OthersSaved ==
    \A t \in Range(ring) : t # current_task \/ isr # "none" => Saved(t)

\* The ring is a sequence of tasks, and the contexts are those of the tasks.
RingAndContexts == ring \in Seq(Task) /\ DOMAIN context = Task

TimerInductive ==
    /\ ContextKept
    /\ RingAndContexts
    /\ TimerOnTime
    /\ AccountOpen
    /\ ExecutedAccounted
    /\ OthersSaved

-----------------------------------------------------------------------------
(* Arithmetic of a register that wraps. *)

LEMMA DivMod ==
    ASSUME NEW M \in Nat \ {0}, NEW a \in Int
    PROVE  a \div M \in Int /\ a = M * (a \div M) + (a % M) /\ a % M \in 0..(M - 1)
  OBVIOUS

LEMMA ModSmall ==
    ASSUME NEW M \in Nat \ {0}, NEW a \in 0..(M - 1)
    PROVE  a % M = a
  OBVIOUS

LEMMA ModAtMost ==
    ASSUME NEW M \in Nat \ {0}, NEW a \in Nat
    PROVE  a % M <= a
  OBVIOUS

\* Quotient and remainder are unique.
LEMMA DivModUnique ==
    ASSUME NEW M \in Nat \ {0}, NEW p \in Int, NEW q \in Int,
           NEW r \in 0..(M - 1), NEW s \in 0..(M - 1),
           M * p + r = M * q + s
    PROVE  p = q /\ r = s
<1>1. M * (p - q) = s - r
  OBVIOUS
<1>2. CASE p = q
  BY <1>1, <1>2
<1>3. CASE p >= q + 1
  <2>1. M * (p - q) >= M
    BY <1>3
  <2> QED
    BY <1>1, <2>1
<1>4. CASE q >= p + 1
  <2>1. M * (p - q) <= -M
    BY <1>4
  <2> QED
    BY <1>1, <2>1
<1> QED
  BY <1>2, <1>3, <1>4

\* Turns of the register do not show in it.
LEMMA ModOfTurns ==
    ASSUME NEW M \in Nat \ {0}, NEW a \in Int, NEW q \in Int, NEW x \in Int,
           x = M * q + a
    PROVE  x % M = a % M
<1> DEFINE p == x \div M
           t == a \div M
           r == x % M
           s == a % M
<1>1. x = M * p + r /\ p \in Int /\ r \in 0..(M - 1)
  BY DivMod
<1>2. a = M * t + s /\ t \in Int /\ s \in 0..(M - 1)
  BY DivMod
<1> HIDE DEF p, t, r, s
<1>3. M * (q + t) = M * q + M * t
  BY <1>2
<1>4. M * p + r = M * (q + t) + s /\ q + t \in Int
  BY <1>1, <1>2, <1>3
<1> DEFINE u == q + t
<1>5. M * p + r = M * u + s /\ u \in Int
  BY <1>4
<1> HIDE DEF u
<1>6. p = u /\ r = s
  <2>1. /\ p \in Int /\ u \in Int /\ r \in 0..(M - 1) /\ s \in 0..(M - 1)
        /\ M * p + r = M * u + s
    BY <1>1, <1>2, <1>5
  <2> QED
    BY <2>1, DivModUnique
<1> QED
  BY <1>6 DEF r, s

LEMMA ModAdd ==
    ASSUME NEW M \in Nat \ {0}, NEW a \in Int, NEW b \in Int
    PROVE  ((a % M) + b) % M = (a + b) % M
<1> DEFINE q == a \div M
           r == a % M
<1>1. a = M * q + r /\ q \in Int /\ r \in Int
  BY DivMod
<1> HIDE DEF q, r
<1>2. a + b = M * q + (r + b) /\ r + b \in Int /\ a + b \in Int
  BY <1>1
<1>3. (a + b) % M = (r + b) % M
  <2> DEFINE x == a + b
             y == r + b
  <2>1. x = M * q + y /\ y \in Int /\ x \in Int
    BY <1>2
  <2> HIDE DEF x, y
  <2>2. x % M = y % M
    BY <1>1, <2>1, ModOfTurns
  <2> QED
    BY <2>2 DEF x, y
<1> QED
  BY <1>3 DEF r

\* The difference of two readings of the register is the time between them,
\* without the turns.
LEMMA ModSub ==
    ASSUME NEW M \in Nat \ {0}, NEW a \in Int, NEW b \in Int
    PROVE  ((a % M) - (b % M)) % M = (a - b) % M
<1> DEFINE p == a \div M
           q == b \div M
           r == a % M
           s == b % M
<1>1. /\ a = M * p + r /\ p \in Int /\ r \in Int
      /\ b = M * q + s /\ q \in Int /\ s \in Int
  BY DivMod
<1> HIDE DEF p, q, r, s
<1>2. M * (p - q) = M * p - M * q
  BY <1>1
<1>3. (a - b) % M = (r - s) % M
  <2> DEFINE x == a - b
             y == r - s
             k == p - q
  <2>1. x = M * k + y /\ y \in Int /\ x \in Int /\ k \in Int
    BY <1>1, <1>2
  <2> HIDE DEF x, y, k
  <2>2. x % M = y % M
    BY <2>1, ModOfTurns
  <2> QED
    BY <2>2 DEF x, y
<1> QED
  BY <1>3 DEF r, s

\* Two times less than a turn apart at which the register reads the same are
\* the same.
LEMMA ModSame ==
    ASSUME NEW M \in Nat \ {0}, NEW a \in Int, NEW b \in Int,
           a % M = b % M, a <= b, b - a < M
    PROVE  a = b
<1> DEFINE d == b - a
<1>1. d \in 0..(M - 1) /\ 0 \in 0..(M - 1)
  OBVIOUS
<1>2. (b % M) - (a % M) = 0
  BY DivMod
<1>3. ((b % M) - (a % M)) % M = d % M
  BY ModSub
<1>4. d % M = 0 % M
  BY <1>2, <1>3
<1>5. d = 0
  <2> HIDE DEF d
  <2> QED
    BY <1>1, <1>4, ModSmall
<1> QED
  BY <1>5

-----------------------------------------------------------------------------
(* The ring. *)

Injective(s) == \A i, j \in DOMAIN s : s[i] = s[j] => i = j

\* task_create puts the new task behind the first.
LEMMA RingAfterCreate ==
    ASSUME NEW s \in Seq(Task), Injective(s), NEW t \in Task, t \notin Range(s),
           NEW new, new = IF s = <<>> THEN <<t>> ELSE <<Head(s), t>> \o Tail(s)
    PROVE  /\ new \in Seq(Task) /\ Injective(new) /\ new # <<>>
           /\ Range(new) = Range(s) \cup {t}
           /\ s # <<>> => Head(new) = Head(s)
<1>1. CASE s = <<>>
  <2>1. Range(s) = {} /\ new = <<t>> /\ new \in Seq(Task) /\ Len(new) = 1 /\ new[1] = t
    BY <1>1 DEF Range
  <2>2. DOMAIN new = {1}
    BY <2>1
  <2> QED
    BY <1>1, <2>1, <2>2 DEF Injective, Range
<1>2. CASE s # <<>>
  <2> DEFINE two == <<Head(s), t>>
  <2>1. /\ Tail(s) \in Seq(Task) /\ Len(Tail(s)) = Len(s) - 1 /\ Len(s) \in Nat /\ Len(s) >= 1
        /\ \A i \in 1 .. Len(Tail(s)) : Tail(s)[i] = s[i + 1]
        /\ Head(s) = s[1] /\ s[1] \in Task
    BY <1>2, HeadTailProperties, EmptySeq
  <2>2. two \in Seq(Task) /\ Len(two) = 2 /\ two[1] = s[1] /\ two[2] = t
    BY <2>1
  <2> HIDE DEF two
  <2>3. /\ new = two \o Tail(s) /\ new \in Seq(Task) /\ Len(new) = Len(s) + 1
        /\ \A i \in 1 .. Len(s) + 1 :
                new[i] = IF i <= 2 THEN two[i] ELSE Tail(s)[i - 2]
    BY <1>2, <2>1, <2>2, ConcatProperties DEF two
  <2>4. DOMAIN new = 1 .. Len(s) + 1 /\ DOMAIN s = 1 .. Len(s)
    BY <2>3, LenProperties
  <2>5. new[1] = s[1] /\ new[2] = t /\ \A i \in 3 .. Len(s) + 1 : new[i] = s[i - 1]
    <3>1. 1 \in 1 .. Len(s) + 1 /\ 2 \in 1 .. Len(s) + 1
      BY <2>1
    <3>2. ASSUME NEW i \in 3 .. Len(s) + 1 PROVE new[i] = s[i - 1]
      <4>1. i \in 1 .. Len(s) + 1 /\ ~(i <= 2) /\ i - 2 \in 1 .. Len(Tail(s)) /\ (i - 2) + 1 = i - 1
        BY <2>1
      <4> QED
        BY <2>1, <2>3, <4>1
    <3> QED
      BY <2>2, <2>3, <3>1, <3>2
  <2>6. \A i \in 1 .. Len(s) : s[i] \in Range(s) /\ s[i] # t
    BY <2>4 DEF Range
  <2>7. Injective(new)
    <3>1. SUFFICES ASSUME NEW i \in 1 .. Len(s) + 1, NEW j \in 1 .. Len(s) + 1,
                          new[i] = new[j]
                   PROVE  i = j
      BY <2>4 DEF Injective
    <3>2. \A k \in 1 .. Len(s) + 1 : k = 1 \/ k = 2 \/ k \in 3 .. Len(s) + 1
      BY <2>1
    <3>3. /\ 1 \in 1 .. Len(s) /\ \A k \in 3 .. Len(s) + 1 : k - 1 \in 1 .. Len(s) /\ k - 1 # 1
          /\ \A k, l \in 3 .. Len(s) + 1 : k - 1 = l - 1 => k = l
      BY <2>1
    <3>4. CASE i = 2 \/ j = 2
      BY <2>5, <2>6, <3>1, <3>2, <3>3, <3>4
    <3>5. CASE i # 2 /\ j # 2
      <4>1. /\ new[i] = s[IF i = 1 THEN 1 ELSE i - 1]
            /\ new[j] = s[IF j = 1 THEN 1 ELSE j - 1]
            /\ (IF i = 1 THEN 1 ELSE i - 1) \in 1 .. Len(s)
            /\ (IF j = 1 THEN 1 ELSE j - 1) \in 1 .. Len(s)
        BY <2>1, <2>5, <3>5, <3>2
      <4>2. (IF i = 1 THEN 1 ELSE i - 1) = (IF j = 1 THEN 1 ELSE j - 1)
        BY <2>4, <3>1, <4>1 DEF Injective
      <4> QED
        BY <3>5, <4>2
    <3> QED
      BY <3>4, <3>5
  <2>8. Range(new) = Range(s) \cup {t}
    <3>1. ASSUME NEW i \in 1 .. Len(s) + 1 PROVE new[i] \in Range(s) \cup {t}
      <4>1. i = 1 \/ i = 2 \/ (i \in 3 .. Len(s) + 1 /\ i - 1 \in 1 .. Len(s))
        BY <2>1
      <4>2. 1 \in 1 .. Len(s)
        BY <2>1
      <4> QED
        BY <2>5, <2>6, <4>1, <4>2
    <3>2. ASSUME NEW i \in 1 .. Len(s) PROVE \E j \in 1 .. Len(s) + 1 : new[j] = s[i]
      <4>1. i = 1 \/ (i + 1 \in 3 .. Len(s) + 1 /\ (i + 1) - 1 = i)
        BY <2>1
      <4>2. 1 \in 1 .. Len(s) + 1 /\ i + 1 \in 1 .. Len(s) + 1
        BY <2>1
      <4> QED
        BY <2>5, <4>1, <4>2
    <3>3. 2 \in 1 .. Len(s) + 1
      BY <2>1
    <3>4. /\ Range(new) = {new[i] : i \in 1 .. Len(s) + 1}
          /\ Range(s) = {s[i] : i \in 1 .. Len(s)}
      BY <2>4 DEF Range
    <3>5. \A x \in Range(new) : x \in Range(s) \cup {t}
      BY <3>1, <3>4
    <3>6. t \in Range(new)
      BY <2>5, <3>3, <3>4
    <3>7. \A x \in Range(s) : x \in Range(new)
      BY <3>2, <3>4
    <3> QED
      BY <3>5, <3>6, <3>7
  <2>9. new # <<>> /\ Head(new) = Head(s)
    BY <2>1, <2>3, <2>5, EmptySeq
  <2> QED
    BY <2>3, <2>7, <2>8, <2>9
<1> QED
  BY <1>1, <1>2

\* The first leaves.
LEMMA RingAfterExit ==
    ASSUME NEW s \in Seq(Task), Injective(s), s # <<>>
    PROVE  /\ Tail(s) \in Seq(Task) /\ Injective(Tail(s))
           /\ Range(Tail(s)) = Range(s) \ {Head(s)}
<1>1. /\ Tail(s) \in Seq(Task) /\ Len(Tail(s)) = Len(s) - 1 /\ Len(s) \in Nat /\ Len(s) >= 1
      /\ \A i \in 1 .. Len(s) - 1 : Tail(s)[i] = s[i + 1]
      /\ Head(s) = s[1]
  BY HeadTailProperties, EmptySeq
<1>2. DOMAIN Tail(s) = 1 .. Len(s) - 1 /\ DOMAIN s = 1 .. Len(s)
  BY <1>1, LenProperties
<1>3. \A i \in 1 .. Len(s) - 1 : i + 1 \in 1 .. Len(s) /\ i + 1 # 1
  BY <1>1
<1>4. \A i \in 1 .. Len(s) : i = 1 \/ (i - 1 \in 1 .. Len(s) - 1 /\ (i - 1) + 1 = i)
  BY <1>1
<1>5. 1 \in 1 .. Len(s) /\ \A i, j \in 1 .. Len(s) - 1 : i + 1 = j + 1 => i = j
  BY <1>1
<1>6. Injective(Tail(s))
  BY <1>1, <1>2, <1>3, <1>5 DEF Injective
<1>7. \A i \in 1 .. Len(s) - 1 : Tail(s)[i] \in Range(s) /\ Tail(s)[i] # s[1]
  BY <1>1, <1>2, <1>3, <1>5 DEF Injective, Range
<1>8. \A i \in 1 .. Len(s) : s[i] # s[1] => \E j \in 1 .. Len(s) - 1 : Tail(s)[j] = s[i]
  BY <1>1, <1>4
<1>9. Range(Tail(s)) = Range(s) \ {s[1]}
  <2>1. Range(Tail(s)) = {Tail(s)[i] : i \in 1 .. Len(s) - 1}
    BY <1>2 DEF Range
  <2>2. Range(s) = {s[i] : i \in 1 .. Len(s)}
    BY <1>2 DEF Range
  <2>3. ASSUME NEW x \in Range(Tail(s)) PROVE x \in Range(s) \ {s[1]}
    <3>1. PICK i \in 1 .. Len(s) - 1 : x = Tail(s)[i]
      BY <2>1
    <3> QED
      BY <1>7, <3>1
  <2>4. ASSUME NEW x \in Range(s) \ {s[1]} PROVE x \in Range(Tail(s))
    <3>1. PICK i \in 1 .. Len(s) : x = s[i]
      BY <2>2
    <3>2. PICK j \in 1 .. Len(s) - 1 : Tail(s)[j] = s[i]
      BY <1>8, <3>1
    <3> QED
      BY <2>1, <3>1, <3>2
  <2> QED
    BY <2>3, <2>4
<1> QED
  BY <1>1, <1>6, <1>9

\* The first goes to the end.
LEMMA RingAfterSwitch ==
    ASSUME NEW s \in Seq(Task), Injective(s), s # <<>>,
           NEW new, new = IF Len(s) = 1 THEN s ELSE Append(Tail(s), Head(s))
    PROVE  /\ new \in Seq(Task) /\ Injective(new) /\ new # <<>>
           /\ Range(new) = Range(s)
           /\ Head(new) = s[IF Len(s) = 1 THEN 1 ELSE 2]
<1>1. CASE Len(s) = 1
  BY <1>1
<1>2. CASE Len(s) # 1
  <2>0. Len(s) \in Nat /\ Len(s) >= 2
    <3> DEFINE n == Len(s)
    <3>1. n \in Nat \ {0} /\ n # 1
      BY <1>2, EmptySeq
    <3> HIDE DEF n
    <3>2. n \in Nat /\ n >= 2
      BY <3>1
    <3> QED
      BY <3>2 DEF n
  <2>1. /\ Tail(s) \in Seq(Task) /\ Len(Tail(s)) = Len(s) - 1 /\ Len(s) \in Nat /\ Len(s) >= 2
        /\ \A i \in 1 .. Len(s) - 1 : Tail(s)[i] = s[i + 1]
        /\ Head(s) = s[1] /\ Head(s) \in Task
    BY <2>0, HeadTailProperties
  <2>2. /\ new = Append(Tail(s), Head(s)) /\ new \in Seq(Task) /\ new # <<>>
        /\ Len(new) = Len(s)
        /\ \A i \in 1 .. Len(s) - 1 : new[i] = s[i + 1]
        /\ new[Len(s)] = s[1]
    BY <1>2, <2>1, AppendProperties
  <2>3. DOMAIN new = 1 .. Len(s) /\ DOMAIN s = 1 .. Len(s)
    BY <2>2, LenProperties
  <2> DEFINE next(i) == IF i = Len(s) THEN 1 ELSE i + 1
             prev(i) == IF i = 1 THEN Len(s) ELSE i - 1
  <2>4. /\ \A i \in 1 .. Len(s) : next(i) \in 1 .. Len(s) /\ new[i] = s[next(i)]
        /\ \A i \in 1 .. Len(s) : prev(i) \in 1 .. Len(s) /\ next(prev(i)) = i
        /\ \A i, j \in 1 .. Len(s) : next(i) = next(j) => i = j
    <3>1. ASSUME NEW i \in 1 .. Len(s) PROVE next(i) \in 1 .. Len(s) /\ new[i] = s[next(i)]
      <4>1. CASE i = Len(s)
        BY <2>1, <2>2, <4>1
      <4>2. CASE i # Len(s)
        <5>1. i \in 1 .. Len(s) - 1 /\ i + 1 \in 1 .. Len(s)
          BY <2>0, <4>2
        <5> QED
          BY <2>2, <4>2, <5>1
      <4> QED
        BY <4>1, <4>2
    <3>2. \A i \in 1 .. Len(s) : prev(i) \in 1 .. Len(s) /\ next(prev(i)) = i
      BY <2>0
    <3>3. \A i, j \in 1 .. Len(s) : next(i) = next(j) => i = j
      BY <2>0
    <3> QED
      BY <3>1, <3>2, <3>3
  <2> HIDE DEF next, prev
  <2>5. Injective(new)
    <3>1. SUFFICES ASSUME NEW i \in 1 .. Len(s), NEW j \in 1 .. Len(s), new[i] = new[j]
                   PROVE  i = j
      BY <2>3 DEF Injective
    <3>2. s[next(i)] = s[next(j)] /\ next(i) \in DOMAIN s /\ next(j) \in DOMAIN s
      BY <2>3, <2>4, <3>1
    <3>3. next(i) = next(j)
      BY <3>2 DEF Injective
    <3> QED
      BY <2>4, <3>3
  <2>6. Range(new) = Range(s)
    <3>1. \A i \in 1 .. Len(s) : new[i] \in Range(s)
      BY <2>3, <2>4 DEF Range
    <3>2. \A i \in 1 .. Len(s) : new[prev(i)] = s[i] /\ prev(i) \in DOMAIN new
      BY <2>3, <2>4
    <3>3. Range(new) \subseteq Range(s)
      BY <2>3, <3>1 DEF Range
    <3>4. Range(s) \subseteq Range(new)
      BY <2>3, <3>2 DEF Range
    <3> QED
      BY <3>3, <3>4
  <2>7. Head(new) = s[2]
    BY <2>1, <2>2
  <2> QED
    BY <1>2, <2>2, <2>5, <2>6, <2>7
<1> QED
  BY <1>1, <1>2

-----------------------------------------------------------------------------
(* The timer. *)

LEMMA PeriodIsNat ==
    ASSUME TimerTypeOK
    PROVE  systick.period \in Nat /\ systick.period \in Int
<1>1. systick.period \in {0, Period} \cup NewPeriods
  BY DEF TimerTypeOK
<1>2. \A p \in NewPeriods : p \in 1..(CountModulus - 1)
  BY TimerAssumption
<1>3. CountModulus \in Nat /\ Period \in Nat
  BY TimerAssumption
<1>4. \A p \in NewPeriods : p \in Nat
  BY <1>2, <1>3
<1> QED
  BY <1>1, <1>3, <1>4

\* systick_init in time: the first interrupt is a period from reset, and the
\* Compare of reset has not been reached.
LEMMA InitTick ==
    ASSUME TimerTypeOK, TimerOnTime, isr = "none", isr' = "none", arch_systick_init
    PROVE  TimerTypeOK' /\ TimerOnTime'
<1> USE TimerAssumption DEF TimerTypeOK
<1>1. /\ ~systick.initialized
      /\ systick' = [period |-> Period, initialized |-> TRUE]
      /\ compare' = Period /\ due' = Period
      /\ late' = IF cycles >= Period THEN late \cup {"init"} ELSE late
      /\ UNCHANGED <<cycles, CTIF, CTIE>>
  BY DEF arch_systick_init, Late
<1>2. /\ CountModulus \in Nat \ {0} /\ Period \in 0..(CountModulus - 1) /\ cycles \in Nat
      /\ Period <= CountModulus - 1
  OBVIOUS
<1>3. Period % CountModulus = Period
  BY <1>2, ModSmall
<1>4. TimerTypeOK'
  <2>1. compare' \in 0..(CountModulus - 1) /\ due' \in Nat /\ late' \subseteq {"init", "enable", "isr", "retimed"}
    BY <1>1, <1>2
  <2>2. systick' \in [period : {0, Period} \cup NewPeriods, initialized : BOOLEAN]
    BY <1>1
  <2> QED
    BY <1>1, <2>1, <2>2
<1>5. systick'.initialized /\ systick'.period = Period
  BY <1>1
<1>6. CTIF => cycles >= CountModulus - 1
  BY <1>1 DEF TimerOnTime
<1>7. ASSUME late' = {} PROVE cycles < Period /\ ~CTIF
  <2>1. cycles < Period
    BY <1>1, <1>2, <1>7
  <2> QED
    BY <1>2, <1>6, <2>1
<1>8. ASSUME late' = {}
      PROVE  (CTIF' \/ isr' = "timer") <=> (cycles' >= due')
  BY <1>1, <1>2, <1>7, <1>8
<1> QED
  BY <1>1, <1>2, <1>3, <1>4, <1>5, <1>8 DEF TimerOnTime

\* The enabling in time drops nothing.
LEMMA EnableTick ==
    ASSUME TimerTypeOK, TimerOnTime, isr = "none", isr' = "none", arch_systick_enable_interrupt
    PROVE  TimerTypeOK' /\ TimerOnTime'
<1> USE TimerAssumption DEF TimerTypeOK
<1>1. /\ CTIF' = FALSE /\ CTIE' = TRUE
      /\ late' = IF systick.initialized /\ cycles >= due THEN late \cup {"enable"} ELSE late
      /\ UNCHANGED <<cycles, compare, systick, due>>
  BY DEF arch_systick_enable_interrupt, Late
<1>2. TimerTypeOK'
  BY <1>1
<1>3. ASSUME systick.initialized, late' = {} PROVE late = {} /\ ~(cycles >= due)
  BY <1>1, <1>3
<1> QED
  BY <1>1, <1>2, <1>3 DEF TimerOnTime

\* After a retiming nothing is promised.
LEMMA RetimedTick ==
    ASSUME TimerTypeOK, TimerOnTime, systick.initialized,
           \/ \E p \in NewPeriods : arch_systick_set_period(p)
           \/ arch_systick_start
           \/ arch_systick_stop
    PROVE  TimerTypeOK' /\ TimerOnTime'
<1> USE TimerAssumption DEF TimerTypeOK
<1>1. CountModulus \in Nat \ {0} /\ cycles \in Nat /\ compare \in Int
      /\ \A p \in NewPeriods : p \in Int
  OBVIOUS
<1>2. CASE \E p \in NewPeriods : arch_systick_set_period(p)
  <2>1. PICK p \in NewPeriods : arch_systick_set_period(p)
    BY <1>2
  <2>2. /\ systick' = [systick EXCEPT !.period = p]
        /\ compare' = (compare + p) % CountModulus
        /\ late' = late \cup {"retimed"}
        /\ UNCHANGED <<cycles, CTIF, CTIE, due>>
    BY <2>1 DEF arch_systick_set_period, Late
  <2>3. compare + p \in Int
    BY <1>1
  <2>4. compare' \in 0..(CountModulus - 1)
    BY <1>1, <2>2, <2>3, DivMod
  <2>5. systick' \in [period : {0, Period} \cup NewPeriods, initialized : BOOLEAN]
        /\ systick'.initialized
    BY <2>2
  <2>6. late' \subseteq {"init", "enable", "isr", "retimed"} /\ late' # {}
    BY <2>2
  <2> QED
    BY <2>2, <2>4, <2>5, <2>6 DEF TimerOnTime
<1>3. CASE arch_systick_start
  <2>1. /\ compare' = (Count + systick.period) % CountModulus
        /\ late' = late \cup {"retimed"}
        /\ UNCHANGED <<cycles, CTIF, CTIE, systick, due>>
    BY <1>3 DEF arch_systick_start, Late
  <2>2. systick.period \in Int
    BY PeriodIsNat
  <2>3. Count \in Int
    BY <1>1, DivMod DEF Count
  <2>4. Count + systick.period \in Int
    BY <2>2, <2>3
  <2>5. compare' \in 0..(CountModulus - 1)
    BY <1>1, <2>1, <2>4, DivMod
  <2>6. late' \subseteq {"init", "enable", "isr", "retimed"} /\ late' # {}
    BY <2>1
  <2> QED
    BY <2>1, <2>5, <2>6 DEF TimerOnTime
<1>4. CASE arch_systick_stop
  <2>1. /\ CTIE' = FALSE /\ late' = late \cup {"retimed"}
        /\ UNCHANGED <<cycles, compare, CTIF, systick, due>>
    BY <1>4 DEF arch_systick_stop, Late
  <2>2. late' \subseteq {"init", "enable", "isr", "retimed"} /\ late' # {}
    BY <2>1
  <2> QED
    BY <2>1, <2>2 DEF TimerOnTime
<1> QED
  BY <1>2, <1>3, <1>4

\* The interrupt in time: Compare is again where the next interrupt is due.
LEMMA MoveTick ==
    ASSUME TimerTypeOK, TimerOnTime, isr = "timer", isr' = "switch", arch_systick_tick
    PROVE  TimerTypeOK' /\ TimerOnTime'
<1> USE TimerAssumption DEF TimerTypeOK
<1>1. CountModulus \in Nat \ {0} /\ cycles \in Nat /\ compare \in Int /\ due \in Nat
  OBVIOUS
<1>2. /\ late' = IF systick.initialized /\ cycles >= due + systick.period
                 THEN late \cup {"isr"} ELSE late
      /\ CTIF' = FALSE
      /\ UNCHANGED <<cycles, CTIE, systick>>
  BY DEF arch_systick_tick, Late
<1>3. late' \subseteq {"init", "enable", "isr", "retimed"}
  BY <1>2
<1>4. systick.period \in Nat
  BY PeriodIsNat
<1>5. CASE systick.initialized
  <2>1. compare' = (compare + systick.period) % CountModulus /\ due' = due + systick.period
    BY <1>5 DEF arch_systick_tick
  <2>2. compare + systick.period \in Int /\ due' \in Nat
    BY <1>1, <1>4, <2>1
  <2>3. compare' \in 0..(CountModulus - 1)
    BY <1>1, <2>1, <2>2, DivMod
  <2>4. TimerTypeOK'
    BY <1>2, <1>3, <2>2, <2>3
  <2>5. ASSUME late' = {}
        PROVE  /\ late = {} /\ cycles < due + Period
               /\ systick.period = Period /\ compare = due % CountModulus
    BY <1>1, <1>2, <1>4, <1>5, <2>5 DEF TimerOnTime
  <2>6. ASSUME late' = {} PROVE due' <= cycles + Period /\ ~(cycles >= due')
    <3>1. cycles >= due
      BY <1>5, <2>5, <2>6 DEF TimerOnTime
    <3> QED
      BY <1>1, <2>1, <2>5, <2>6, <3>1
  <2>7. ASSUME late' = {} PROVE compare' = due' % CountModulus
    <3>1. systick.period = Period /\ Period \in Int /\ due \in Int
      BY <1>1, <2>5, <2>7
    <3>2. compare' = ((due % CountModulus) + Period) % CountModulus
      BY <2>1, <2>5, <2>7
    <3>3. ((due % CountModulus) + Period) % CountModulus = (due + Period) % CountModulus
      BY <1>1, <3>1, ModAdd
    <3> QED
      BY <2>1, <3>1, <3>2, <3>3
  <2> QED
    BY <1>2, <1>5, <2>4, <2>5, <2>6, <2>7 DEF TimerOnTime
<1>6. CASE ~systick.initialized
  <2>1. UNCHANGED <<compare, due>>
    BY <1>6 DEF arch_systick_tick
  <2>2. TimerTypeOK'
    BY <1>2, <1>3, <2>1
  <2> QED
    BY <1>2, <1>6, <2>1, <2>2 DEF TimerOnTime
<1> QED
  BY <1>5, <1>6

\* Count reaches Compare exactly when the interrupt is due.
LEMMA CountTick ==
    ASSUME TimerTypeOK, TimerOnTime, isr' = isr, CountUp
    PROVE  TimerTypeOK' /\ TimerOnTime'
<1> USE TimerAssumption DEF TimerTypeOK
<1>1. /\ cycles < MaxTime /\ cycles' = cycles + 1
      /\ CTIF' = (CTIF \/ (cycles + 1) % CountModulus = compare)
      /\ UNCHANGED <<compare, CTIE, systick, due, late>>
  BY DEF CountUp, Count
<1>2. /\ CountModulus \in Nat \ {0} /\ cycles \in Nat /\ due \in Nat /\ compare \in Int
      /\ cycles + 1 \in Nat /\ Period < CountModulus /\ Period \in Nat
  OBVIOUS
<1>3. TimerTypeOK'
  <2>1. cycles' \in 0..MaxTime /\ CTIF' \in BOOLEAN
    BY <1>1
  <2> QED
    BY <1>1, <2>1
<1>4. ASSUME ~systick.initialized
      PROVE  compare = CountModulus - 1 /\ (CTIF' => cycles' >= CountModulus - 1)
  <2>1. compare = CountModulus - 1 /\ (CTIF => cycles >= CountModulus - 1)
    BY <1>4 DEF TimerOnTime
  <2>2. (cycles + 1) % CountModulus <= cycles + 1
    BY <1>2, ModAtMost
  <2>3. ASSUME (cycles + 1) % CountModulus = compare PROVE cycles + 1 >= CountModulus - 1
    BY <1>2, <2>1, <2>2, <2>3
  <2>4. CTIF => cycles + 1 >= CountModulus - 1
    BY <1>2, <2>1
  <2> QED
    BY <1>1, <2>1, <2>3, <2>4
<1>5. ASSUME systick.initialized, late = {}
      PROVE  /\ due <= cycles' + Period
             /\ cycles' < due + Period => (CTIF' \/ isr' = "timer" <=> cycles' >= due)
  <2>1. /\ compare = due % CountModulus /\ due <= cycles + Period
        /\ cycles < due + Period => (CTIF \/ isr = "timer" <=> cycles >= due)
    BY <1>5 DEF TimerOnTime
  <2>2. due <= cycles' + Period
    BY <1>1, <1>2, <2>1
  <2>3. ASSUME cycles' < due + Period
        PROVE  CTIF' \/ isr' = "timer" <=> cycles' >= due
    <3>1. CTIF \/ isr = "timer" <=> cycles >= due
      BY <1>1, <1>2, <2>1, <2>3
    <3>2. CASE cycles >= due
      <4>1. cycles' >= due
        BY <1>1, <1>2, <3>2
      <4> QED
        BY <1>1, <3>1, <3>2, <4>1
    <3>3. CASE ~(cycles >= due)
      <4>1. cycles + 1 <= due /\ due - (cycles + 1) < CountModulus
        BY <1>2, <2>1, <3>3
      <4>2. (cycles + 1) % CountModulus = due % CountModulus <=> cycles + 1 = due
        <5> DEFINE now == cycles + 1
        <5>1. now \in Int /\ due \in Int /\ now <= due /\ due - now < CountModulus
          BY <1>2, <4>1
        <5> HIDE DEF now
        <5>2. now % CountModulus = due % CountModulus => now = due
          BY <1>2, <5>1, ModSame
        <5> QED
          BY <5>2 DEF now
      <4>3. cycles + 1 = due <=> cycles + 1 >= due
        BY <1>2, <4>1
      <4> QED
        BY <1>1, <2>1, <3>1, <3>3, <4>2, <4>3
    <3> QED
      BY <3>2, <3>3
  <2> QED
    BY <2>2, <2>3
<1> QED
  BY <1>1, <1>3, <1>4, <1>5 DEF TimerOnTime

-----------------------------------------------------------------------------
(* The steps. *)

\* What the types say of the ring and of the task that runs.
LEMMA RingFacts ==
    ASSUME TypeOK, RingAndContexts
    PROVE  /\ ring \in Seq(Task) /\ Injective(ring) /\ Range(ring) \subseteq Task
           /\ current_task # NULL =>
                /\ ring # <<>> /\ current_task = Head(ring)
                /\ current_task \in Range(ring) /\ current_task \in Task
<1>1. Injective(ring)
  BY DEF TypeOK, Injective
<1>2. Range(ring) \subseteq Task
  BY DEF TypeOK, Range
<1>3. ASSUME current_task # NULL
      PROVE  /\ ring # <<>> /\ current_task = Head(ring)
             /\ current_task \in Range(ring)
  <2>1. ring # <<>> /\ current_task = Head(ring)
    BY <1>3 DEF TypeOK
  <2>2. Len(ring) \in Nat \ {0} /\ Head(ring) = ring[1] /\ DOMAIN ring = 1 .. Len(ring)
    BY <2>1, EmptySeq, LenProperties DEF RingAndContexts
  <2>3. 1 \in DOMAIN ring
    BY <2>2
  <2> QED
    BY <2>1, <2>2, <2>3 DEF Range
<1> QED
  BY <1>1, <1>2, <1>3 DEF RingAndContexts

LEMMA SameTick ==
    ASSUME TimerTypeOK, TimerOnTime, UNCHANGED timer,
           (isr' = "timer" <=> isr = "timer") \/ (CTIF /\ isr' = "timer")
    PROVE  TimerTypeOK' /\ TimerOnTime'
<1>1. UNCHANGED <<cycles, compare, CTIF, CTIE, systick, due, late>>
  BY DEF timer
<1>2. TimerTypeOK'
  BY <1>1 DEF TimerTypeOK
<1>3. (CTIF \/ isr = "timer") <=> (CTIF' \/ isr' = "timer")
  BY <1>1
<1> QED
  BY <1>1, <1>2, <1>3 DEF TimerOnTime

LEMMA InitTimer == Init => TimerInductive
<1> SUFFICES ASSUME Init PROVE TimerInductive
  OBVIOUS
<1> USE TimerAssumption, TaskAssumption
<1>1. /\ cycles = 0 /\ compare = CountModulus - 1
      /\ CTIF = FALSE /\ CTIE = FALSE
      /\ systick = [period |-> 0, initialized |-> FALSE]
      /\ due = 0 /\ late = {}
      /\ ring = <<>> /\ current_task = NULL /\ isr = "none"
      /\ cpu = Of("boot") /\ context = [t \in Task |-> Freed]
      /\ total_cycles = [t \in Task |-> 0] /\ last_count = [t \in Task |-> 0]
      /\ executed = [t \in Task |-> 0]
      /\ stamped = 0 /\ overlong = FALSE
  BY DEF Init, TimerInit
<1>2. TimerTypeOK
  <2>1. cycles \in 0..MaxTime /\ compare \in 0..(CountModulus - 1) /\ due \in Nat
    BY <1>1
  <2> QED
    BY <1>1, <2>1 DEF TimerTypeOK
<1>3. Range(ring) = {} /\ ring \in Seq(Task) /\ DOMAIN ring = {}
  BY <1>1 DEF Range
<1>4. TypeOK
  <2>1. \A t \in Task : DOMAIN context[t] = CpuContext
    BY <1>1 DEF Freed
  <2>2. DOMAIN cpu = Register
    BY <1>1 DEF Of
  <2>3. 0 \in 0..MaxTime /\ 0 \in 0..(CountModulus - 1)
    OBVIOUS
  <2>4. /\ total_cycles \in [Task -> 0..MaxTime] /\ executed \in [Task -> 0..MaxTime]
        /\ last_count \in [Task -> 0..(CountModulus - 1)]
    BY <1>1, <2>3
  <2> QED
    BY <1>1, <1>2, <1>3, <2>1, <2>2, <2>3, <2>4 DEF TypeOK
<1>5. RingAndContexts
  BY <1>1, <1>3 DEF RingAndContexts
<1>6. TimerOnTime
  BY <1>1 DEF TimerOnTime
<1>7. AccountOpen
  BY <1>1 DEF AccountOpen
<1> QED
  BY <1>1, <1>3, <1>4, <1>5, <1>6, <1>7
     DEF TimerInductive, ContextKept, RegistersKept, ExecutedAccounted, OthersSaved

\* What cpu_context_init leaves in the registers a task begins with.
LEMMA InitContext ==
    ASSUME NEW t, NEW c, c = cpu_context_init(t)
    PROVE  /\ DOMAIN c = CpuContext
           /\ c.epc = <<t, "entry">> /\ c.a0 = <<t, "arg">> /\ c.sp = <<t, "stack_top">>
           /\ c.ra = <<"kernel", "task_exit_handler">> /\ c.status = <<"kernel", "IE">>
<1>1. {"epc", "a0", "sp", "ra", "status"} \subseteq CpuContext
  BY DEF CpuContext, General
<1>2. DOMAIN c = CpuContext
  BY DEF cpu_context_init
<1>3. c.epc = <<t, "entry">> /\ c.a0 = <<t, "arg">> /\ c.sp = <<t, "stack_top">>
  BY <1>1 DEF cpu_context_init
<1>4. c.ra = <<"kernel", "task_exit_handler">> /\ c.status = <<"kernel", "IE">>
  BY <1>1 DEF cpu_context_init
<1> QED
  BY <1>2, <1>3, <1>4

\* A new task does not disturb the others.
LEMMA CreateKeeps ==
    ASSUME TimerInductive, NEW t \in Task, task_create(t),
           cycles' = cycles, TimerTypeOK', TimerOnTime'
    PROVE  TimerInductive'
<1> USE TimerAssumption, TaskAssumption DEF TimerInductive, ContextKept
<1>1. /\ isr = "none" /\ t \notin Range(ring)
      /\ ring' = IF ring = <<>> THEN <<t>> ELSE <<Head(ring), t>> \o Tail(ring)
      /\ context' = [context EXCEPT ![t] = cpu_context_init(t)]
      /\ total_cycles' = [total_cycles EXCEPT ![t] = 0]
      /\ last_count' = [last_count EXCEPT ![t] = cycles % CountModulus]
      /\ executed' = [executed EXCEPT ![t] = 0]
      /\ UNCHANGED <<cpu, current_task, isr, stamped, overlong>>
  BY DEF task_create, Count
<1>2. /\ ring \in Seq(Task) /\ Injective(ring) /\ Range(ring) \subseteq Task
      /\ current_task # NULL =>
            /\ ring # <<>> /\ current_task = Head(ring)
            /\ current_task \in Range(ring) /\ current_task \in Task
  BY RingFacts
<1>3. /\ ring' \in Seq(Task) /\ Injective(ring') /\ ring' # <<>>
      /\ Range(ring') = Range(ring) \cup {t}
      /\ ring # <<>> => Head(ring') = Head(ring)
  BY <1>1, <1>2, RingAfterCreate
<1>4. current_task # t
  BY <1>1, <1>2
<1>5. /\ total_cycles \in [Task -> 0..MaxTime] /\ executed \in [Task -> 0..MaxTime]
      /\ last_count \in [Task -> 0..(CountModulus - 1)]
      /\ DOMAIN context = Task /\ \A u \in Task : DOMAIN context[u] = CpuContext
      /\ DOMAIN cpu = Register
      /\ cycles \in Nat /\ stamped \in Nat /\ CountModulus \in Nat \ {0}
      /\ stamped <= MaxTime
  BY SMTT(30) DEF TypeOK, RingAndContexts, TimerTypeOK
<1>6. /\ \A u \in Task : u # t =>
            /\ context'[u] = context[u] /\ total_cycles'[u] = total_cycles[u]
            /\ last_count'[u] = last_count[u] /\ executed'[u] = executed[u]
      /\ context'[t] = cpu_context_init(t) /\ total_cycles'[t] = 0 /\ executed'[t] = 0
      /\ DOMAIN context' = Task
  BY <1>1, <1>5
<1>7. DOMAIN context'[t] = CpuContext
  BY <1>6, InitContext
<1>8. TypeOK'
  <2>1. cycles % CountModulus \in 0..(CountModulus - 1)
    BY <1>5, DivMod
  <2>2. 0 \in 0..MaxTime
    OBVIOUS
  <2>3. /\ total_cycles' \in [Task -> 0..MaxTime] /\ executed' \in [Task -> 0..MaxTime]
        /\ last_count' \in [Task -> 0..(CountModulus - 1)]
    BY <1>1, <1>5, <2>1, <2>2
  <2>4. \A u \in Task : DOMAIN (context'[u]) = CpuContext
    BY <1>5, <1>6, <1>7
  <2>5. \A i, j \in DOMAIN ring' : ring'[i] \in Task /\ (ring'[i] = ring'[j] => i = j)
    <3>1. DOMAIN ring' = 1 .. Len(ring')
      BY <1>3, LenProperties
    <3>2. \A i \in DOMAIN ring' : ring'[i] \in Task
      BY <1>3, <3>1, ElementOfSeq
    <3> QED
      BY <1>3, <3>2 DEF Injective
  <2>6. current_task' # NULL => ring' # <<>> /\ current_task' = Head(ring')
    BY <1>1, <1>2, <1>3
  <2>7. /\ current_task' \in Task \cup {NULL} /\ DOMAIN cpu' = Register
        /\ isr' \in {"none", "timer", "switch", "resume", "lost"}
        /\ stamped' \in 0..MaxTime /\ overlong' \in BOOLEAN
    BY <1>1, <1>5 DEF TypeOK
  <2> QED
    BY <2>3, <2>4, <2>5, <2>6, <2>7 DEF TypeOK
<1>9. RingAndContexts'
  BY <1>3, <1>6 DEF RingAndContexts
<1>10. RegistersKept'
  BY <1>1, <1>2, <1>4, <1>6 DEF RegistersKept
<1>11. AccountOpen'
  <2>1. \A u \in Task : total_cycles'[u] <= cycles /\ executed'[u] <= cycles
    <3>1. \A u \in Task : u # t => total_cycles'[u] <= cycles /\ executed'[u] <= cycles
      BY <1>6 DEF AccountOpen
    <3> QED
      BY <1>5, <1>6, <3>1
  <2>2. current_task' # NULL /\ isr' \notin {"resume", "lost"} =>
            /\ last_count'[current_task'] = stamped' % CountModulus
            /\ total_cycles'[current_task'] <= stamped'
    BY <1>1, <1>2, <1>4, <1>6 DEF AccountOpen
  <2> QED
    BY <1>1, <2>1, <2>2 DEF AccountOpen
<1>12. ExecutedAccounted'
  <2>1. SUFFICES ASSUME ~overlong', NEW u \in Range(ring')
                 PROVE  executed'[u] <= total_cycles'[u] +
                           (IF u = current_task' /\ isr' # "resume"
                            THEN cycles' - stamped' ELSE 0)
    BY DEF ExecutedAccounted
  <2>2. CASE u = t
    BY <1>1, <1>4, <1>6, <2>2
  <2>3. CASE u # t
    BY <1>1, <1>2, <1>3, <1>6, <2>1, <2>3 DEF ExecutedAccounted
  <2> QED
    BY <2>2, <2>3
<1>13. OthersSaved'
  <2>1. Saved(t)'
    <3>1. ~(executed'[t] > 0)
      BY <1>6
    <3>2. /\ context'[t].epc = <<t, "entry">> /\ context'[t].a0 = <<t, "arg">>
          /\ context'[t].sp = <<t, "stack_top">>
          /\ context'[t].ra = <<"kernel", "task_exit_handler">>
          /\ context'[t].status = <<"kernel", "IE">>
      BY <1>6, InitContext
    <3> QED
      BY <3>1, <3>2 DEF Saved
  <2>2. ASSUME NEW u \in Range(ring), u # current_task \/ isr # "none" PROVE Saved(u)'
    <3>1. u \in Task /\ u # t
      BY <1>1, <1>2
    <3>2. Saved(u)
      BY <2>2 DEF OthersSaved
    <3> QED
      BY <1>6, <3>1, <3>2 DEF Saved
  <2> QED
    BY <1>1, <1>3, <2>1, <2>2 DEF OthersSaved
<1> QED
  BY <1>8, <1>9, <1>10, <1>11, <1>12, <1>13

\* task_exit_handler takes the running task out of the ring.
LEMMA ExitKeeps ==
    ASSUME TimerInductive, TaskExit
    PROVE  TimerInductive'
<1> USE TimerAssumption, TaskAssumption DEF TimerInductive, ContextKept
<1> DEFINE t == current_task
<1>1. /\ isr = "none" /\ t # NULL
      /\ ring' = Tail(ring) /\ current_task' = NULL
      /\ context' = [context EXCEPT ![t] = Freed]
      /\ total_cycles' = [total_cycles EXCEPT ![t] = 0]
      /\ last_count' = [last_count EXCEPT ![t] = 0]
      /\ executed' = [executed EXCEPT ![t] = 0]
      /\ UNCHANGED <<isr, cpu, stamped, overlong>> /\ UNCHANGED timer
      /\ cycles' = cycles
  BY DEF TaskExit, timer
<1>2. /\ ring \in Seq(Task) /\ Injective(ring) /\ Range(ring) \subseteq Task
      /\ ring # <<>> /\ t = Head(ring) /\ t \in Range(ring) /\ t \in Task
  BY <1>1, RingFacts
<1>3. /\ ring' \in Seq(Task) /\ Injective(ring') /\ Range(ring') = Range(ring) \ {t}
  BY <1>1, <1>2, RingAfterExit
<1>4. TimerTypeOK' /\ TimerOnTime'
  BY <1>1, SameTick DEF TypeOK
<1>5. /\ total_cycles \in [Task -> 0..MaxTime] /\ executed \in [Task -> 0..MaxTime]
      /\ last_count \in [Task -> 0..(CountModulus - 1)]
      /\ DOMAIN context = Task /\ \A u \in Task : DOMAIN context[u] = CpuContext
      /\ DOMAIN cpu = Register
      /\ cycles \in Nat /\ stamped \in 0..MaxTime /\ CountModulus \in Nat \ {0}
  BY DEF TypeOK, RingAndContexts, TimerTypeOK
<1> HIDE DEF t
<1>6. /\ \A u \in Task : u # t =>
            /\ context'[u] = context[u] /\ total_cycles'[u] = total_cycles[u]
            /\ last_count'[u] = last_count[u] /\ executed'[u] = executed[u]
      /\ context'[t] = Freed /\ total_cycles'[t] = 0 /\ executed'[t] = 0
      /\ DOMAIN context' = Task
  BY <1>1, <1>2, <1>5
<1>7. TypeOK'
  <2>1. 0 \in 0..MaxTime /\ 0 \in 0..(CountModulus - 1)
    BY <1>5
  <2>2. /\ total_cycles' \in [Task -> 0..MaxTime] /\ executed' \in [Task -> 0..MaxTime]
        /\ last_count' \in [Task -> 0..(CountModulus - 1)]
    BY <1>1, <1>5, <2>1
  <2>3. \A u \in Task : DOMAIN (context'[u]) = CpuContext
    <3>1. DOMAIN (context'[t]) = CpuContext
      BY <1>6 DEF Freed
    <3> QED
      BY <1>5, <1>6, <3>1
  <2>4. \A i, j \in DOMAIN ring' : ring'[i] \in Task /\ (ring'[i] = ring'[j] => i = j)
    <3>1. DOMAIN ring' = 1 .. Len(ring')
      BY <1>3, LenProperties
    <3>2. \A i \in DOMAIN ring' : ring'[i] \in Task
      BY <1>3, <3>1, ElementOfSeq
    <3> QED
      BY <1>3, <3>2 DEF Injective
  <2>5. /\ current_task' = NULL /\ DOMAIN cpu' = Register
        /\ isr' \in {"none", "timer", "switch", "resume", "lost"}
        /\ stamped' \in 0..MaxTime /\ overlong' \in BOOLEAN
    BY <1>1, <1>5 DEF TypeOK
  <2> QED
    BY <1>4, <2>2, <2>3, <2>4, <2>5 DEF TypeOK
<1>8. RingAndContexts' /\ RegistersKept'
  BY <1>1, <1>3, <1>6 DEF RingAndContexts, RegistersKept
<1>9. AccountOpen'
  <2>1. \A u \in Task : total_cycles'[u] <= cycles /\ executed'[u] <= cycles
    <3>1. \A u \in Task : u # t => total_cycles'[u] <= cycles /\ executed'[u] <= cycles
      BY <1>6 DEF AccountOpen
    <3> QED
      BY <1>5, <1>6, <3>1
  <2> QED
    BY <1>1, <2>1 DEF AccountOpen
<1>10. \A u \in Range(ring') : u # t /\ u \in Task /\ u \in Range(ring) /\ u # NULL
  BY <1>2, <1>3
<1>11. ExecutedAccounted'
  <2>1. SUFFICES ASSUME ~overlong', NEW u \in Range(ring')
                 PROVE  executed'[u] <= total_cycles'[u] +
                           (IF u = current_task' /\ isr' # "resume"
                            THEN cycles' - stamped' ELSE 0)
    BY DEF ExecutedAccounted
  <2>2. executed[u] <= total_cycles[u]
    <3>1. u # current_task /\ total_cycles[u] \in Nat
      BY <1>5, <1>10 DEF t
    <3> QED
      BY <1>1, <1>10, <2>1, <3>1 DEF ExecutedAccounted
  <2>3. u # current_task' /\ total_cycles[u] \in Nat
    BY <1>1, <1>5, <1>10
  <2> QED
    BY <1>6, <1>10, <2>2, <2>3
<1>12. OthersSaved'
  <2>1. ASSUME NEW u \in Range(ring') PROVE Saved(u)'
    <3>1. Saved(u)
      BY <1>10 DEF OthersSaved, t
    <3> QED
      BY <1>6, <1>10, <3>1 DEF Saved
  <2> QED
    BY <2>1 DEF OthersSaved
<1> QED
  BY <1>4, <1>7, <1>8, <1>9, <1>11, <1>12

\* The interrupt's entry: the running task's registers go into its context.
LEMMA SaveKeeps ==
    ASSUME TimerInductive, SaveContext
    PROVE  TimerInductive'
<1> USE TimerAssumption, TaskAssumption DEF TimerInductive, ContextKept
<1>1. /\ isr = "none" /\ CTIF /\ isr' = "timer"
      /\ context' = IF current_task = NULL THEN context
                    ELSE [context EXCEPT ![current_task] =
                             [f \in CpuContext |-> IF f = "epc" THEN cpu.pc ELSE cpu[f]]]
      /\ cpu' = [cpu EXCEPT !["epc"] = cpu.pc]
      /\ UNCHANGED <<current_task, ring, total_cycles, last_count, executed, stamped, overlong>>
      /\ UNCHANGED timer /\ cycles' = cycles
  BY DEF SaveContext, accounts, timer
<1>2. /\ Range(ring) \subseteq Task
      /\ current_task # NULL => current_task \in Range(ring) /\ current_task \in Task
  BY RingFacts
<1>3. TimerTypeOK' /\ TimerOnTime'
  BY <1>1, SameTick DEF TypeOK
<1>4. DOMAIN context = Task /\ (\A u \in Task : DOMAIN context[u] = CpuContext)
      /\ DOMAIN cpu = Register
  BY DEF TypeOK, RingAndContexts
<1>5. \A u \in Task : u # current_task => context'[u] = context[u]
  BY <1>1, <1>4
<1>6. current_task # NULL =>
        context'[current_task] = [f \in CpuContext |-> IF f = "epc" THEN cpu.pc ELSE cpu[f]]
  BY <1>1, <1>2, <1>4
<1>7. DOMAIN context' = Task
  BY <1>1, <1>4
<1>8. DOMAIN cpu' = Register
  BY <1>1, <1>4
<1>9. \A u \in Task : DOMAIN (context'[u]) = CpuContext
  BY <1>2, <1>4, <1>5, <1>6
<1>10. TypeOK'
  BY <1>1, <1>3, <1>8, <1>9 DEF TypeOK
<1>11. RingAndContexts' /\ RegistersKept'
  BY <1>1, <1>7 DEF RingAndContexts, RegistersKept
<1>12. AccountOpen'
  BY <1>1 DEF AccountOpen
<1>13. ExecutedAccounted'
  BY <1>1 DEF ExecutedAccounted
<1>14. ASSUME current_task # NULL PROVE Saved(current_task)'
  <2> DEFINE t == current_task
             c == context'[current_task]
  <2>1. c = [f \in CpuContext |-> IF f = "epc" THEN cpu.pc ELSE cpu[f]]
    BY <1>6, <1>14
  <2>2. {"epc", "a0", "sp", "ra", "status"} \subseteq CpuContext
        /\ (General \ {"at"}) \cup {"status"} \subseteq CpuContext
        /\ "epc" \notin (General \ {"at"}) \cup {"status"}
    BY DEF CpuContext, General
  <2>3. CASE executed[t] > 0
    <3>1. \A r \in (General \ {"at"}) \cup {"pc", "status"} : cpu[r] = <<t, r>>
      BY <1>1, <1>14, <2>3 DEF RegistersKept
    <3>2. \A r \in (General \ {"at"}) \cup {"status"} : c[r] = <<t, r>>
      <4> HIDE DEF c
      <4> QED
        BY <2>1, <2>2, <3>1
    <3>3. c.epc = <<t, "pc">>
      <4> HIDE DEF c
      <4> QED
        BY <2>1, <2>2, <3>1
    <3> QED
      BY <1>1, <2>3, <3>2, <3>3 DEF Saved
  <2>4. CASE ~(executed[t] > 0)
    <3>1. /\ cpu.pc = <<t, "entry">> /\ cpu.a0 = <<t, "arg">>
          /\ cpu.sp = <<t, "stack_top">>
          /\ cpu.ra = <<"kernel", "task_exit_handler">>
          /\ cpu.status = <<"kernel", "IE">>
      BY <1>1, <1>14, <2>4 DEF RegistersKept
    <3>2. /\ c.epc = <<t, "entry">> /\ c.a0 = <<t, "arg">> /\ c.sp = <<t, "stack_top">>
          /\ c.ra = <<"kernel", "task_exit_handler">> /\ c.status = <<"kernel", "IE">>
      <4> HIDE DEF c
      <4> QED
        BY <2>1, <2>2, <3>1
    <3> QED
      BY <1>1, <2>4, <3>2 DEF Saved
  <2> QED
    BY <2>3, <2>4
<1>15. ASSUME NEW u \in Range(ring), u # current_task PROVE Saved(u)'
  <2>1. Saved(u) /\ u \in Task
    BY <1>2, <1>15 DEF OthersSaved
  <2> QED
    BY <1>1, <1>5, <1>15, <2>1 DEF Saved
<1>16. OthersSaved'
  <2>1. \A u \in Range(ring) : u # NULL
    BY <1>2
  <2>2. \A u \in Range(ring) : Saved(u)'
    BY <1>1, <1>14, <1>15, <2>1
  <2> QED
    BY <1>1, <2>2 DEF OthersSaved
<1> QED
  BY <1>3, <1>10, <1>11, <1>12, <1>13, <1>16

\* The driver's calls outside the interrupt, and its tick in it, touch neither
\* the tasks nor their accounts.
LEMMA DriverKeeps ==
    ASSUME TimerInductive, systick_init \/ Retime \/ MoveCompare
    PROVE  TimerInductive'
<1> USE TimerAssumption, TaskAssumption DEF TimerInductive, ContextKept
<1>1. TimerTypeOK' /\ TimerOnTime'
  <2>1. CASE systick_init
    BY <2>1, InitTick DEF systick_init, TypeOK
  <2>2. CASE Retime
    BY <2>2, RetimedTick DEF Retime, TypeOK
  <2>3. CASE MoveCompare
    BY <2>3, MoveTick DEF MoveCompare, TypeOK
  <2> QED
    BY <2>1, <2>2, <2>3
<1>2. cycles' = cycles
  BY DEF systick_init, Retime, MoveCompare, arch_systick_init, arch_systick_set_period,
         arch_systick_start, arch_systick_stop, arch_systick_tick
<1>3. /\ UNCHANGED <<current_task, ring, context, total_cycles, last_count, executed,
                     stamped, overlong>>
      /\ DOMAIN cpu' = Register
      /\ isr' \in {"none", "timer", "switch", "resume", "lost"}
      /\ \/ isr' = isr /\ cpu' = cpu
         \/ isr = "timer" /\ isr' = "switch"
  BY DEF systick_init, Retime, MoveCompare, tasks, accounts, TypeOK, Of
<1>4. TypeOK'
  BY <1>1, <1>3 DEF TypeOK
<1>5. RingAndContexts'
  BY <1>3 DEF RingAndContexts
<1>6. RegistersKept'
  BY <1>3 DEF RegistersKept
<1>7. AccountOpen'
  BY <1>2, <1>3 DEF AccountOpen
<1>8. ExecutedAccounted'
  <2>1. isr' = "resume" <=> isr = "resume"
    BY <1>3
  <2> QED
    BY <1>2, <1>3, <2>1 DEF ExecutedAccounted
<1>9. OthersSaved'
  <2>1. isr' = "none" <=> isr = "none"
    BY <1>3
  <2>2. \A u \in Task : Saved(u)' <=> Saved(u)
    BY <1>3 DEF Saved
  <2>3. Range(ring) \subseteq Task
    BY RingFacts
  <2> QED
    BY <1>3, <2>1, <2>2, <2>3 DEF OthersSaved
<1> QED
  BY <1>1, <1>4, <1>5, <1>6, <1>7, <1>8, <1>9

\* What is added at the end of a slice is not more than its length, and all of
\* it if it is shorter than a turn of Count.
LEMMA SliceAdded ==
    ASSUME TimerInductive, isr = "switch", current_task # NULL,
           NEW added, added = (Count - last_count[current_task]) % CountModulus
    PROVE  /\ added \in Nat /\ added <= cycles - stamped
           /\ cycles - stamped < CountModulus => added = cycles - stamped
<1> USE TimerAssumption, TaskAssumption DEF TimerInductive, ContextKept
<1> DEFINE slice == cycles - stamped
<1>1. cycles \in Nat /\ stamped \in Nat /\ CountModulus \in Nat \ {0} /\ stamped <= cycles
  BY DEF TypeOK, TimerTypeOK, AccountOpen
<1>2. last_count[current_task] = stamped % CountModulus
  BY DEF AccountOpen
<1>3. added = slice % CountModulus
  <2>1. added = ((cycles % CountModulus) - (stamped % CountModulus)) % CountModulus
    BY <1>2 DEF Count
  <2>2. cycles \in Int /\ stamped \in Int
    BY <1>1
  <2>3. ((cycles % CountModulus) - (stamped % CountModulus)) % CountModulus
           = (cycles - stamped) % CountModulus
    BY <1>1, <2>2, ModSub
  <2> QED
    BY <2>1, <2>3
<1>4. slice \in Nat /\ slice \in Int
  BY <1>1
<1> HIDE DEF slice, TimerInductive, ContextKept
<1>5. added \in Nat /\ added <= slice
  <2>1. slice % CountModulus \in 0..(CountModulus - 1)
    BY <1>1, <1>4, DivMod
  <2>2. slice % CountModulus <= slice
    BY <1>1, <1>4, ModAtMost
  <2> QED
    BY <1>1, <1>3, <2>1, <2>2
<1>6. slice < CountModulus => added = slice
  <2>1. slice < CountModulus => slice \in 0..(CountModulus - 1)
    BY <1>1, <1>4
  <2> QED
    BY <1>1, <1>3, <2>1, ModSmall
<1> QED
  BY <1>5, <1>6 DEF slice

\* The difference of the two readings of Count is at most the slice, and the
\* slice if it is shorter than a turn of Count.
LEMMA CyclesAdded ==
    ASSUME TimerInductive, isr = "switch", AddCycles
    PROVE  /\ total_cycles' \in [Task -> Nat]
           /\ \A t \in Task : total_cycles[t] <= total_cycles'[t] /\ total_cycles'[t] <= cycles
           /\ overlong' \in BOOLEAN /\ (overlong => overlong')
           /\ ~overlong' => \A t \in Range(ring) : executed[t] <= total_cycles'[t]
<1> USE TimerAssumption, TaskAssumption DEF TimerInductive, ContextKept
<1>1. /\ total_cycles \in [Task -> 0..MaxTime] /\ executed \in [Task -> 0..MaxTime]
      /\ overlong \in BOOLEAN
      /\ cycles \in Nat /\ stamped \in Nat /\ CountModulus \in Nat \ {0}
      /\ stamped <= cycles /\ \A t \in Task : total_cycles[t] <= cycles
  BY DEF TypeOK, TimerTypeOK, AccountOpen
<1>2. /\ Range(ring) \subseteq Task
      /\ current_task # NULL => current_task \in Task
  BY RingFacts
<1>3. \A t \in Task : total_cycles[t] \in Nat /\ executed[t] \in Nat
  BY <1>1
<1>4. ASSUME ~overlong, NEW t \in Range(ring), t # current_task
      PROVE  executed[t] <= total_cycles[t]
  <2>1. executed[t] <= total_cycles[t] + 0
    BY <1>4 DEF ExecutedAccounted
  <2> QED
    BY <1>2, <1>3, <2>1
<1>5. CASE current_task = NULL
  <2>1. UNCHANGED <<total_cycles, overlong>>
    BY <1>5 DEF AddCycles
  <2>2. total_cycles \in [Task -> Nat]
    BY <1>1, <1>3
  <2>3. \A t \in Range(ring) : t # current_task
    BY <1>2, <1>5
  <2> QED
    BY <1>1, <1>3, <1>4, <2>1, <2>2, <2>3
<1>6. CASE current_task # NULL
  <2> DEFINE slice == cycles - stamped
             added == (Count - last_count[current_task]) % CountModulus
  <2>1. /\ total_cycles' = [total_cycles EXCEPT ![current_task] = @ + added]
        /\ overlong' = (overlong \/ slice >= CountModulus)
    BY <1>6 DEF AddCycles
  <2>2. total_cycles[current_task] <= stamped
    BY <1>6 DEF AccountOpen
  <2>4. slice \in Nat
    BY <1>1
  <2>5. added \in Nat /\ added <= slice /\ (slice < CountModulus => added = slice)
    BY <1>6, SliceAdded
  <2> HIDE DEF added
  <2>7. /\ total_cycles'[current_task] = total_cycles[current_task] + added
        /\ \A t \in Task : t # current_task => total_cycles'[t] = total_cycles[t]
    BY <1>1, <1>2, <1>6, <2>1
  <2>8. total_cycles[current_task] \in Nat /\ executed[current_task] \in Nat
    BY <1>2, <1>3, <1>6
  <2>9. total_cycles' \in [Task -> Nat]
    <3>1. total_cycles[current_task] + added \in Nat
      BY <2>5, <2>8
    <3> QED
      BY <1>1, <1>3, <2>1, <3>1
  <2>10. \A t \in Task : total_cycles[t] <= total_cycles'[t] /\ total_cycles'[t] <= cycles
    <3>1. total_cycles[current_task] <= total_cycles'[current_task]
          /\ total_cycles'[current_task] <= cycles
      BY <1>1, <2>2, <2>5, <2>7, <2>8
    <3> QED
      BY <1>1, <1>3, <2>7, <3>1
  <2>11. overlong' \in BOOLEAN /\ (overlong => overlong')
    BY <1>1, <2>1
  <2>12. ASSUME ~overlong', NEW t \in Range(ring) PROVE executed[t] <= total_cycles'[t]
    <3>1. ~overlong /\ slice < CountModulus
      <4>1. ~overlong /\ ~(slice >= CountModulus)
        BY <2>1, <2>12
      <4> QED
        BY <1>1, <2>4, <4>1
    <3>2. CASE t # current_task
      BY <1>2, <1>4, <2>7, <3>1, <3>2
    <3>3. CASE t = current_task
      <4>1. executed[t] <= total_cycles[t] + slice
        BY <3>1, <3>3 DEF ExecutedAccounted
      <4> QED
        BY <2>5, <2>7, <3>1, <3>3, <4>1
    <3> QED
      BY <3>2, <3>3
  <2> QED
    BY <2>9, <2>10, <2>11, <2>12
<1> QED
  BY <1>5, <1>6

\* The switch: the leaving task's cycles are accounted before another is
\* current.
LEMMA SwitchKeeps ==
    ASSUME TimerInductive, switch_to_next
    PROVE  TimerInductive'
<1> USE TimerAssumption, TaskAssumption DEF TimerInductive, ContextKept
<1>1. /\ isr = "switch" /\ ring # <<>> /\ AddCycles /\ isr' = "resume"
      /\ ring' = IF Len(ring) = 1 THEN ring ELSE Append(Tail(ring), Head(ring))
      /\ current_task' = ring[IF Len(ring) = 1 THEN 1 ELSE 2]
      /\ UNCHANGED <<cpu, context, last_count, executed, stamped>>
      /\ UNCHANGED timer /\ cycles' = cycles
  BY DEF switch_to_next, NextTask, timer
<1>2. ring \in Seq(Task) /\ Injective(ring) /\ Range(ring) \subseteq Task
  BY RingFacts
<1>3. /\ ring' \in Seq(Task) /\ Injective(ring') /\ ring' # <<>>
      /\ Range(ring') = Range(ring) /\ Head(ring') = current_task'
  BY <1>1, <1>2, RingAfterSwitch
<1>4. TimerTypeOK' /\ TimerOnTime'
  BY <1>1, SameTick DEF TypeOK
<1>5. /\ total_cycles' \in [Task -> Nat]
      /\ \A t \in Task : total_cycles'[t] <= cycles
      /\ overlong' \in BOOLEAN
      /\ ~overlong' => \A t \in Range(ring) : executed[t] <= total_cycles'[t]
  BY <1>1, CyclesAdded
<1>6. /\ executed \in [Task -> 0..MaxTime] /\ cycles \in 0..MaxTime
      /\ last_count \in [Task -> 0..(CountModulus - 1)]
      /\ DOMAIN cpu = Register /\ stamped \in 0..MaxTime
      /\ \A u \in Task : DOMAIN context[u] = CpuContext
  BY DEF TypeOK, TimerTypeOK
<1>7. TypeOK'
  <2>1. total_cycles' \in [Task -> 0..MaxTime]
    <3>1. \A t \in Task : total_cycles'[t] \in 0..MaxTime
      BY <1>5, <1>6
    <3> QED
      BY <1>5, <3>1
  <2>2. \A i, j \in DOMAIN ring' : ring'[i] \in Task /\ (ring'[i] = ring'[j] => i = j)
    <3>1. DOMAIN ring' = 1 .. Len(ring')
      BY <1>3, LenProperties
    <3>2. \A i \in DOMAIN ring' : ring'[i] \in Task
      BY <1>3, <3>1, ElementOfSeq
    <3> QED
      BY <1>3, <3>2 DEF Injective
  <2>3. current_task' \in Task
    BY <1>3, HeadTailProperties
  <2>4. isr' \in {"none", "timer", "switch", "resume", "lost"}
    BY <1>1
  <2> QED
    BY <1>1, <1>3, <1>4, <1>5, <1>6, <2>1, <2>2, <2>3, <2>4 DEF TypeOK
<1>8. RingAndContexts' /\ RegistersKept'
  BY <1>1, <1>3 DEF RingAndContexts, RegistersKept
<1>9. AccountOpen'
  BY <1>1, <1>5 DEF AccountOpen
<1>10. ExecutedAccounted'
  <2>1. SUFFICES ASSUME ~overlong', NEW u \in Range(ring')
                 PROVE  executed'[u] <= total_cycles'[u] + 0
    BY <1>1 DEF ExecutedAccounted
  <2>2. u \in Task /\ executed[u] <= total_cycles'[u] /\ total_cycles'[u] \in Nat
    BY <1>2, <1>3, <1>5, <2>1
  <2> QED
    BY <1>1, <2>2
<1>11. OthersSaved'
  <2>1. \A u \in Range(ring) : Saved(u)' <=> Saved(u)
    BY <1>1 DEF Saved
  <2> QED
    BY <1>1, <1>3, <2>1 DEF OthersSaved
<1> QED
  BY <1>4, <1>7, <1>8, <1>9, <1>10, <1>11

LEMMA FallOffKeeps ==
    ASSUME TimerInductive, FallOff
    PROVE  TimerInductive'
<1> USE TimerAssumption, TaskAssumption DEF TimerInductive, ContextKept
<1>1. /\ isr = "switch" /\ isr' = "lost"
      /\ UNCHANGED <<current_task, ring, cpu, context, last_count, executed, stamped>>
      /\ UNCHANGED timer /\ cycles' = cycles
      /\ (ring = <<>> /\ UNCHANGED <<total_cycles, overlong>>) \/ AddCycles
  BY DEF FallOff, tasks, timer
<1>2. Range(ring) \subseteq Task
  BY RingFacts
<1>3. TimerTypeOK' /\ TimerOnTime'
  BY <1>1, SameTick DEF TypeOK
<1>4. /\ executed \in [Task -> 0..MaxTime] /\ cycles \in 0..MaxTime /\ stamped \in 0..MaxTime
      /\ total_cycles \in [Task -> 0..MaxTime]
      /\ stamped <= cycles /\ \A t \in Task : total_cycles[t] <= cycles
  BY DEF TypeOK, TimerTypeOK, AccountOpen
<1>5. /\ total_cycles' \in [Task -> Nat]
      /\ \A t \in Task : total_cycles'[t] <= cycles
      /\ overlong' \in BOOLEAN
      /\ ~overlong' => \A t \in Range(ring) : executed[t] <= total_cycles'[t]
  <2>1. CASE AddCycles
    BY <1>1, <2>1, CyclesAdded
  <2>2. CASE ring = <<>> /\ UNCHANGED <<total_cycles, overlong>>
    <3>1. Range(ring) = {}
      BY <2>2 DEF Range
    <3>2. total_cycles \in [Task -> Nat] /\ overlong \in BOOLEAN
      BY <1>4 DEF TypeOK
    <3> QED
      BY <1>4, <2>2, <3>1, <3>2
  <2> QED
    BY <1>1, <2>1, <2>2
<1>6. TypeOK'
  <2>1. total_cycles' \in [Task -> 0..MaxTime]
    <3>1. \A t \in Task : total_cycles'[t] \in 0..MaxTime
      BY <1>4, <1>5
    <3> QED
      BY <1>5, <3>1
  <2>2. isr' \in {"none", "timer", "switch", "resume", "lost"}
    BY <1>1
  <2> QED
    BY <1>1, <1>3, <1>5, <2>1, <2>2 DEF TypeOK
<1>7. RingAndContexts' /\ RegistersKept'
  BY <1>1 DEF RingAndContexts, RegistersKept
<1>8. AccountOpen'
  BY <1>1, <1>4, <1>5 DEF AccountOpen
<1>9. ExecutedAccounted'
  <2>1. SUFFICES ASSUME ~overlong', NEW u \in Range(ring)
                 PROVE  executed[u] <= total_cycles'[u] +
                           (IF u = current_task THEN cycles - stamped ELSE 0)
    BY <1>1 DEF ExecutedAccounted
  <2>2. /\ u \in Task /\ executed[u] \in Nat /\ executed[u] <= total_cycles'[u]
        /\ total_cycles'[u] \in Nat
    BY <1>2, <1>4, <1>5, <2>1
  <2>3. CASE u = current_task
    BY <1>4, <2>2, <2>3
  <2>4. CASE u # current_task
    BY <2>2, <2>4
  <2> QED
    BY <2>3, <2>4
<1>10. OthersSaved'
  <2>1. \A u \in Range(ring) : Saved(u)' <=> Saved(u)
    BY <1>1 DEF Saved
  <2> QED
    BY <1>1, <2>1 DEF OthersSaved
<1> QED
  BY <1>3, <1>6, <1>7, <1>8, <1>9, <1>10

\* The return: the task's account is opened and its registers are loaded.
LEMMA ResumeKeeps ==
    ASSUME TimerInductive, Resume
    PROVE  TimerInductive'
<1> USE TimerAssumption, TaskAssumption DEF TimerInductive, ContextKept
<1>1. /\ isr = "resume" /\ isr' = "none"
      /\ last_count' = [last_count EXCEPT ![current_task] = cycles % CountModulus]
      /\ cpu' = [r \in Register |-> IF r \in CpuContext THEN context[current_task][r]
                                    ELSE IF r = "pc" THEN context[current_task].epc ELSE cpu[r]]
      /\ stamped' = cycles
      /\ UNCHANGED <<current_task, ring, context, total_cycles, executed, overlong>>
      /\ UNCHANGED timer /\ cycles' = cycles
  BY DEF Resume, Count, timer
<1>2. /\ Range(ring) \subseteq Task
      /\ current_task # NULL => current_task \in Range(ring) /\ current_task \in Task
  BY RingFacts
<1>3. TimerTypeOK' /\ TimerOnTime'
  BY <1>1, SameTick DEF TypeOK
<1>4. /\ executed \in [Task -> 0..MaxTime] /\ cycles \in 0..MaxTime /\ stamped \in 0..MaxTime
      /\ total_cycles \in [Task -> 0..MaxTime]
      /\ last_count \in [Task -> 0..(CountModulus - 1)]
      /\ CountModulus \in Nat \ {0}
      /\ \A t \in Task : total_cycles[t] <= cycles /\ executed[t] <= cycles
  BY DEF TypeOK, TimerTypeOK, AccountOpen
<1>5. TypeOK'
  <2>1. cycles % CountModulus \in 0..(CountModulus - 1)
    BY <1>4, DivMod
  <2>2. last_count' \in [Task -> 0..(CountModulus - 1)]
    BY <1>1, <1>4, <2>1
  <2>3. isr' \in {"none", "timer", "switch", "resume", "lost"} /\ DOMAIN cpu' = Register
        /\ stamped' \in 0..MaxTime
    BY <1>1, <1>4
  <2> QED
    BY <1>1, <1>3, <2>2, <2>3 DEF TypeOK
<1>6. RingAndContexts'
  BY <1>1 DEF RingAndContexts
<1>7. RegistersKept'
  <2> DEFINE t == current_task
             c == context[t]
  <2>1. SUFFICES ASSUME t # NULL
                 PROVE  IF executed[t] > 0
                        THEN \A r \in (General \ {"at"}) \cup {"pc", "status"} : cpu'[r] = <<t, r>>
                        ELSE /\ cpu'.pc = <<t, "entry">> /\ cpu'.a0 = <<t, "arg">>
                             /\ cpu'.sp = <<t, "stack_top">>
                             /\ cpu'.ra = <<"kernel", "task_exit_handler">>
                             /\ cpu'.status = <<"kernel", "IE">>
    BY <1>1 DEF RegistersKept
  <2>2. Saved(t)
    BY <1>1, <1>2, <2>1 DEF OthersSaved
  <2>3. /\ {"a0", "sp", "ra", "status"} \subseteq CpuContext
        /\ (General \ {"at"}) \cup {"status"} \subseteq CpuContext
        /\ "pc" \notin CpuContext
    BY DEF CpuContext, General
  <2>4. CpuContext \subseteq Register /\ "pc" \in Register
    BY DEF CpuContext, Register
  <2>5. \A r \in CpuContext : cpu'[r] = c[r]
    <3> HIDE DEF c
    <3>1. cpu' = [r \in Register |-> IF r \in CpuContext THEN c[r]
                                     ELSE IF r = "pc" THEN c.epc ELSE cpu[r]]
      BY <1>1 DEF c
    <3> QED
      BY <2>4, <3>1
  <2>6. cpu'.pc = c.epc
    BY <1>1, <2>3, <2>4
  <2> HIDE DEF c
  <2>7. CASE executed[t] > 0
    <3>1. /\ \A r \in (General \ {"at"}) \cup {"status"} : c[r] = <<t, r>>
          /\ c.epc = <<t, "pc">>
      BY <2>2, <2>7 DEF Saved, c
    <3>2. \A r \in (General \ {"at"}) \cup {"status"} : cpu'[r] = <<t, r>>
      BY <2>3, <2>5, <3>1
    <3>3. cpu'.pc = <<t, "pc">>
      BY <2>6, <3>1
    <3> QED
      BY <2>7, <3>2, <3>3
  <2>8. CASE ~(executed[t] > 0)
    <3>1. /\ c.epc = <<t, "entry">> /\ c.a0 = <<t, "arg">> /\ c.sp = <<t, "stack_top">>
          /\ c.ra = <<"kernel", "task_exit_handler">> /\ c.status = <<"kernel", "IE">>
      BY <2>2, <2>8 DEF Saved, c
    <3> QED
      BY <2>3, <2>5, <2>6, <2>8, <3>1
  <2> QED
    BY <2>7, <2>8
<1>8. AccountOpen'
  <2>1. current_task # NULL => last_count'[current_task] = cycles % CountModulus
    BY <1>1, <1>2, <1>4
  <2> QED
    BY <1>1, <1>2, <1>4, <2>1 DEF AccountOpen
<1>9. ExecutedAccounted'
  <2>1. SUFFICES ASSUME ~overlong, NEW u \in Range(ring)
                 PROVE  executed[u] <= total_cycles[u] +
                           (IF u = current_task THEN cycles - cycles ELSE 0)
    BY <1>1 DEF ExecutedAccounted
  <2>2. u \in Task /\ executed[u] <= total_cycles[u] + 0
    BY <1>1, <1>2, <2>1 DEF ExecutedAccounted
  <2> QED
    BY <1>4, <2>2
<1>10. OthersSaved'
  <2>1. \A u \in Range(ring) : Saved(u)' <=> Saved(u)
    BY <1>1 DEF Saved
  <2> QED
    BY <1>1, <2>1 DEF OthersSaved
<1> QED
  BY <1>3, <1>5, <1>6, <1>7, <1>8, <1>9, <1>10

\* A cycle of the running task, or of the interrupt.
LEMMA PassTimeKeeps ==
    ASSUME TimerInductive, PassTime
    PROVE  TimerInductive'
<1> USE TimerAssumption, TaskAssumption DEF TimerInductive, ContextKept
<1> DEFINE runs == isr = "none" /\ current_task # NULL
<1>1. /\ isr # "lost" /\ CountUp /\ cycles' = cycles + 1
      /\ runs => /\ executed' = [executed EXCEPT ![current_task] = @ + 1]
                 /\ cpu' = [r \in Register |-> IF r \in General \cup {"pc", "status"}
                                               THEN <<current_task, r>> ELSE cpu[r]]
      /\ ~runs => UNCHANGED <<executed, cpu>>
      /\ UNCHANGED <<current_task, isr, ring, context, total_cycles, last_count, stamped, overlong>>
  BY DEF PassTime, CountUp
<1>2. /\ Range(ring) \subseteq Task
      /\ current_task # NULL => current_task \in Range(ring) /\ current_task \in Task
  BY RingFacts
<1>3. TimerTypeOK' /\ TimerOnTime'
  BY <1>1, CountTick DEF TypeOK
<1>4. /\ executed \in [Task -> 0..MaxTime] /\ cycles \in Nat /\ stamped \in Nat
      /\ total_cycles \in [Task -> 0..MaxTime]
      /\ DOMAIN cpu = Register /\ cycles' \in 0..MaxTime
      /\ stamped <= cycles
      /\ \A t \in Task : total_cycles[t] <= cycles /\ executed[t] <= cycles
  BY <1>3 DEF TypeOK, TimerTypeOK, AccountOpen
<1>5. /\ runs => executed'[current_task] = executed[current_task] + 1
      /\ \A u \in Task : u # current_task \/ ~runs => executed'[u] = executed[u]
      /\ DOMAIN executed' = Task
  BY <1>1, <1>2, <1>4
<1>6. \A u \in Task : executed'[u] \in Nat /\ executed'[u] <= cycles'
  <2>1. \A u \in Task : executed[u] \in Nat /\ executed[u] <= cycles
    BY <1>4
  <2>2. \A u \in Task : executed'[u] = executed[u] \/ executed'[u] = executed[u] + 1
    BY <1>5
  <2> HIDE DEF runs
  <2> QED
    BY <1>1, <1>4, <2>1, <2>2
<1>7. TypeOK'
  <2>1. executed' \in [Task -> 0..MaxTime]
    <3>1. \A u \in Task : executed'[u] \in 0..MaxTime
      BY <1>4, <1>6
    <3>2. executed' = [u \in Task |-> executed'[u]]
      BY <1>1, <1>4
    <3> QED
      BY <3>1, <3>2
  <2>2. DOMAIN cpu' = Register
    BY <1>1, <1>4
  <2> QED
    BY <1>1, <1>3, <2>1, <2>2 DEF TypeOK
<1>8. RingAndContexts'
  BY <1>1 DEF RingAndContexts
<1>9. RegistersKept'
  <2>1. SUFFICES ASSUME runs
                 PROVE  /\ executed'[current_task] > 0
                        /\ \A r \in (General \ {"at"}) \cup {"pc", "status"} :
                                cpu'[r] = <<current_task, r>>
    BY <1>1 DEF RegistersKept
  <2>2. executed'[current_task] > 0
    BY <1>2, <1>4, <1>5, <2>1
  <2>3. (General \ {"at"}) \cup {"pc", "status"} \subseteq Register \cap (General \cup {"pc", "status"})
    BY DEF Register
  <2>4. \A r \in (General \ {"at"}) \cup {"pc", "status"} : cpu'[r] = <<current_task, r>>
    BY <1>1, <2>1, <2>3
  <2> QED
    BY <2>2, <2>4
<1>10. AccountOpen'
  <2>1. stamped' <= cycles' /\ \A t \in Task : total_cycles'[t] <= cycles'
    BY <1>1, <1>4
  <2>2. current_task' # NULL /\ isr' \notin {"resume", "lost"} =>
            /\ last_count'[current_task'] = stamped' % CountModulus
            /\ total_cycles'[current_task'] <= stamped'
    BY <1>1 DEF AccountOpen
  <2> QED
    BY <1>6, <2>1, <2>2 DEF AccountOpen
<1>11. ExecutedAccounted'
  <2>1. SUFFICES ASSUME ~overlong, NEW u \in Range(ring)
                 PROVE  executed'[u] <= total_cycles[u] +
                           (IF u = current_task /\ isr # "resume"
                            THEN (cycles + 1) - stamped ELSE 0)
    BY <1>1 DEF ExecutedAccounted
  <2>2. /\ u \in Task /\ executed[u] \in Nat /\ total_cycles[u] \in Nat
        /\ executed[u] <= total_cycles[u] +
                (IF u = current_task /\ isr # "resume" THEN cycles - stamped ELSE 0)
    BY <1>2, <1>4, <2>1 DEF ExecutedAccounted
  <2>3. CASE u = current_task /\ isr # "resume"
    <3>1. executed'[u] = executed[u] \/ executed'[u] = executed[u] + 1
      BY <1>5, <2>2
    <3>2. executed[u] <= total_cycles[u] + (cycles - stamped)
      BY <2>2, <2>3
    <3> HIDE DEF runs
    <3>3. executed'[u] <= total_cycles[u] + ((cycles + 1) - stamped)
      BY <1>4, <2>2, <3>1, <3>2
    <3> QED
      BY <2>3, <3>3
  <2>4. CASE ~(u = current_task /\ isr # "resume")
    <3>1. executed'[u] = executed[u]
      BY <1>5, <2>2, <2>4
    <3> QED
      BY <2>2, <2>4, <3>1
  <2> QED
    BY <2>3, <2>4
<1>12. OthersSaved'
  <2>1. ASSUME NEW u \in Range(ring), u # current_task \/ isr # "none" PROVE Saved(u)'
    <3>1. Saved(u) /\ executed'[u] = executed[u] /\ u \in Task
      BY <1>2, <1>5, <2>1 DEF OthersSaved
    <3> QED
      BY <1>1, <3>1 DEF Saved
  <2> QED
    BY <1>1, <2>1 DEF OthersSaved
<1> QED
  BY <1>3, <1>7, <1>8, <1>9, <1>10, <1>11, <1>12

-----------------------------------------------------------------------------
(* All of it, in every reachable state. *)

LEMMA TimerStep == TimerInductive /\ [Next]_vars => TimerInductive'
<1> SUFFICES ASSUME TimerInductive, [Next]_vars PROVE TimerInductive'
  OBVIOUS
<1>1. ASSUME NEW t \in Task, LoadTask(t) PROVE TimerInductive'
  <2>1. task_create(t) /\ UNCHANGED timer /\ isr' = isr /\ cycles' = cycles
    BY <1>1 DEF LoadTask, task_create, timer
  <2>2. TimerTypeOK' /\ TimerOnTime'
    BY <2>1, SameTick DEF TimerInductive, ContextKept, TypeOK
  <2> QED
    BY <2>1, <2>2, CreateKeeps
<1>2. CASE scheduler_init
  <2>1. /\ task_create(Idle) /\ arch_systick_enable_interrupt
        /\ isr = "none" /\ isr' = "none" /\ cycles' = cycles
    BY <1>2 DEF scheduler_init, task_create, arch_systick_enable_interrupt
  <2>2. TimerTypeOK' /\ TimerOnTime'
    BY <2>1, EnableTick DEF TimerInductive, ContextKept, TypeOK
  <2> QED
    BY <2>1, <2>2, CreateKeeps, TaskAssumption
<1>3. CASE systick_init \/ Retime \/ MoveCompare
  BY <1>3, DriverKeeps
<1>4. CASE TaskExit
  BY <1>4, ExitKeeps
<1>5. CASE SaveContext
  BY <1>5, SaveKeeps
<1>6. CASE switch_to_next
  BY <1>6, SwitchKeeps
<1>7. CASE FallOff
  BY <1>7, FallOffKeeps
<1>8. CASE Resume
  BY <1>8, ResumeKeeps
<1>9. CASE PassTime
  BY <1>9, PassTimeKeeps
<1>10. CASE UNCHANGED vars
  <2>1. /\ UNCHANGED timer
        /\ UNCHANGED <<current_task, isr, ring, cpu, context>>
        /\ UNCHANGED <<total_cycles, last_count, executed, stamped, overlong>>
        /\ cycles' = cycles
    BY <1>10 DEF vars, tasks, accounts, timer
  <2>2. TimerTypeOK' /\ TimerOnTime'
    BY <2>1, SameTick DEF TimerInductive, ContextKept, TypeOK
  <2>3. TypeOK' /\ RegistersKept' /\ RingAndContexts'
    BY <2>1, <2>2 DEF TimerInductive, ContextKept, TypeOK, RegistersKept, RingAndContexts
  <2>4. AccountOpen' /\ ExecutedAccounted'
    BY <2>1 DEF TimerInductive, AccountOpen, ExecutedAccounted
  <2>5. OthersSaved'
    <3>1. \A u \in Range(ring) : Saved(u)' <=> Saved(u)
      BY <2>1 DEF Saved
    <3> QED
      BY <2>1, <3>1 DEF TimerInductive, OthersSaved
  <2> QED
    BY <2>2, <2>3, <2>4, <2>5 DEF TimerInductive, ContextKept
<1> QED
  BY <1>1, <1>2, <1>3, <1>4, <1>5, <1>6, <1>7, <1>8, <1>9, <1>10 DEF Next

LEMMA TimerAlways == Spec => []TimerInductive
<1>1. Init => TimerInductive
  BY InitTimer
<1>2. TimerInductive /\ [Next]_vars => TimerInductive'
  BY TimerStep
<1> QED
  BY <1>1, <1>2, PTL DEF Spec

-----------------------------------------------------------------------------
(* No cycle is counted twice. *)

\* While a task runs, the accounts hold no more than had gone by when its slice
\* began; what is added at the end of the slice is no more than the slice.
NoneTwice ==
    /\ NoCycleTwice
    /\ current_task # NULL /\ isr \notin {"resume", "lost"} => Cardinality(Accounted) <= stamped

\* The accounts hold a number of cycles.
LEMMA AccountedFinite ==
    ASSUME NEW s \in Seq(Task), NEW f
    PROVE  LET all == {c \in Range(s) \X (1..MaxTime) : c[2] <= f[c[1]]}
           IN  IsFiniteSet(all) /\ Cardinality(all) \in Nat
<1> DEFINE all == {c \in Range(s) \X (1..MaxTime) : c[2] <= f[c[1]]}
<1>1. Len(s) \in Nat /\ DOMAIN s = 1 .. Len(s) /\ s = [i \in 1 .. Len(s) |-> s[i]]
  BY LenProperties
<1>2. s \in Surjection(1 .. Len(s), Range(s))
  BY <1>1 DEF Surjection, Range
<1>3. IsFiniteSet(Range(s))
  <2>1. 1 \in Int /\ Len(s) \in Int
    BY <1>1
  <2>2. IsFiniteSet(1 .. Len(s))
    BY <2>1, FS_Interval
  <2> QED
    BY <1>2, <2>2, FS_Surjection
<1>4. IsFiniteSet(1..MaxTime)
  BY TimerAssumption, FS_Interval
<1>5. IsFiniteSet(Range(s) \X (1..MaxTime))
  BY <1>3, <1>4, FS_Product
<1>6. all \subseteq Range(s) \X (1..MaxTime)
  OBVIOUS
<1>7. IsFiniteSet(all) /\ Cardinality(all) \in Nat
  <2> HIDE DEF all
  <2> QED
    BY <1>5, <1>6, FS_Subset, FS_CardinalityType
<1> QED
  BY <1>7

LEMMA AccountedNumber ==
    ASSUME RingAndContexts, RingAndContexts'
    PROVE  /\ IsFiniteSet(Accounted) /\ Cardinality(Accounted) \in Nat
           /\ IsFiniteSet(Accounted') /\ Cardinality(Accounted') \in Nat
  BY AccountedFinite DEF RingAndContexts, Accounted

\* Adding to one account adds no more to the whole.
LEMMA AccountGrows ==
    ASSUME TimerInductive, TimerInductive', Range(ring') = Range(ring),
           NEW t \in Task, NEW d \in Nat,
           total_cycles' = [total_cycles EXCEPT ![t] = @ + d]
    PROVE  Cardinality(Accounted') <= Cardinality(Accounted) + d
<1> DEFINE n == total_cycles[t]
           added == {t} \X ((n + 1) .. (n + d))
<1>1. total_cycles \in [Task -> Nat] /\ n \in Nat /\ Range(ring) \subseteq Task
  <2>1. TypeOK /\ RingAndContexts
    BY DEF TimerInductive, ContextKept
  <2>2. Range(ring) \subseteq Task
    BY <2>1, RingFacts
  <2>3. total_cycles \in [Task -> 0..MaxTime]
    BY <2>1 DEF TypeOK
  <2>4. 0..MaxTime \subseteq Nat
    BY TimerAssumption
  <2>5. total_cycles[t] \in 0..MaxTime
    BY <2>3
  <2> QED
    BY <2>2, <2>3, <2>4, <2>5
<1>2. /\ IsFiniteSet(Accounted) /\ Cardinality(Accounted) \in Nat
      /\ IsFiniteSet(Accounted') /\ Cardinality(Accounted') \in Nat
  BY AccountedNumber DEF TimerInductive
<1>3. total_cycles'[t] = n + d /\ \A u \in Task : u # t => total_cycles'[u] = total_cycles[u]
  BY <1>1
<1>4. IsFiniteSet(added) /\ Cardinality(added) = d
  <2>1. IsFiniteSet({t}) /\ Cardinality({t}) = 1
    BY FS_Singleton
  <2>2. /\ n + 1 \in Int /\ n + d \in Int
        /\ (n + 1 > n + d) = (d = 0) /\ (n + d) - (n + 1) + 1 = d
    BY <1>1
  <2> DEFINE row == (n + 1) .. (n + d)
  <2>3. IsFiniteSet(row) /\ Cardinality(row) = d
    BY <2>2, FS_Interval
  <2>4. added = {t} \X row
    OBVIOUS
  <2> HIDE DEF n, row, added
  <2>5. /\ IsFiniteSet({t} \X row)
        /\ Cardinality({t} \X row) = Cardinality({t}) * Cardinality(row)
    BY <2>1, <2>3, FS_Product
  <2>6. Cardinality({t}) * Cardinality(row) = d
    BY <2>1, <2>3
  <2> QED
    BY <2>4, <2>5, <2>6
<1>5. Accounted' \subseteq Accounted \cup added
  <2>1. SUFFICES ASSUME NEW u \in Range(ring), NEW k \in 1..MaxTime, k <= total_cycles'[u],
                        ~(k <= total_cycles[u])
                 PROVE  u = t /\ k \in (n + 1) .. (n + d)
    <3>1. Accounted' = {c \in Range(ring) \X (1..MaxTime) : c[2] <= total_cycles'[c[1]]}
      BY DEF Accounted
    <3>2. ASSUME NEW c \in Accounted', c \notin Accounted
          PROVE  c \in added
      <4>1. PICK u \in Range(ring), k \in 1..MaxTime : c = <<u, k>>
        BY <3>1, <3>2
      <4>2. k <= total_cycles'[u]
        BY <3>1, <3>2, <4>1
      <4>3. ~(k <= total_cycles[u])
        BY <3>2, <4>1 DEF Accounted
      <4>4. u = t /\ k \in (n + 1) .. (n + d)
        BY <2>1, <4>2, <4>3
      <4> QED
        BY <4>1, <4>4
    <3> QED
      BY <3>2
  <2>2. u = t
    BY <1>1, <1>3, <2>1
  <2> QED
    BY <1>1, <1>3, <2>1, <2>2, TimerAssumption
<1> HIDE DEF added
<1>6. /\ IsFiniteSet(Accounted \cup added)
      /\ Cardinality(Accounted \cup added) =
            Cardinality(Accounted) + Cardinality(added) - Cardinality(Accounted \cap added)
  BY <1>2, <1>4, FS_Union
<1>7. Cardinality(Accounted \cap added) \in Nat
  <2>1. IsFiniteSet(Accounted \cap added)
    BY <1>2, FS_Intersection
  <2> QED
    BY <2>1, FS_CardinalityType
<1>8. Cardinality(Accounted') <= Cardinality(Accounted \cup added)
  BY <1>5, <1>6, FS_Subset
<1> QED
  BY <1>2, <1>4, <1>6, <1>7, <1>8

\* Whatever leaves no account higher adds nothing.
LEMMA AccountShrinks ==
    ASSUME RingAndContexts, RingAndContexts', Accounted' \subseteq Accounted
    PROVE  Cardinality(Accounted') <= Cardinality(Accounted) /\ Cardinality(Accounted) \in Nat
<1>1. IsFiniteSet(Accounted) /\ Cardinality(Accounted) \in Nat
  BY AccountedNumber
<1> QED
  BY <1>1, FS_Subset

LEMMA NoneTwiceStep ==
    TimerInductive /\ TimerInductive' /\ NoneTwice /\ [Next]_vars => NoneTwice'
<1> SUFFICES ASSUME TimerInductive, TimerInductive', NoneTwice, [Next]_vars PROVE NoneTwice'
  OBVIOUS
<1> USE TimerAssumption, TaskAssumption
<1>1. /\ ring \in Seq(Task) /\ Injective(ring) /\ Range(ring) \subseteq Task
      /\ cycles \in Nat /\ stamped \in Nat /\ stamped <= cycles
      /\ total_cycles \in [Task -> 0..MaxTime]
      /\ current_task # NULL => ring # <<>> /\ current_task = Head(ring) /\ current_task \in Task
  <2>1. /\ ring \in Seq(Task) /\ Injective(ring) /\ Range(ring) \subseteq Task
        /\ current_task # NULL => ring # <<>> /\ current_task = Head(ring) /\ current_task \in Task
    BY RingFacts DEF TimerInductive, ContextKept
  <2>2. /\ cycles \in Nat /\ stamped \in Nat /\ stamped <= cycles
        /\ total_cycles \in [Task -> 0..MaxTime]
    BY DEF TimerInductive, ContextKept, TypeOK, TimerTypeOK, AccountOpen
  <2> QED
    BY <2>1, <2>2
<1> RingAndContexts /\ RingAndContexts'
  BY DEF TimerInductive
<1>2. ASSUME UNCHANGED <<current_task, stamped>>, Accounted' \subseteq Accounted,
             isr \in {"resume", "lost"} => isr' \in {"resume", "lost"},
             cycles' \in Nat, cycles <= cycles'
      PROVE  NoneTwice'
  <2>1. Cardinality(Accounted') \in Nat
    BY AccountedNumber
  <2>2. Cardinality(Accounted') <= Cardinality(Accounted) /\ Cardinality(Accounted) \in Nat
    BY <1>2, AccountShrinks
  <2> QED
    BY <1>1, <1>2, <2>1, <2>2 DEF NoneTwice, NoCycleTwice
<1>3. ASSUME NEW t \in Task, task_create(t), cycles' = cycles PROVE NoneTwice'
  <2>1. /\ t \notin Range(ring) /\ total_cycles' = [total_cycles EXCEPT ![t] = 0]
        /\ ring' = IF ring = <<>> THEN <<t>> ELSE <<Head(ring), t>> \o Tail(ring)
        /\ UNCHANGED <<current_task, isr, stamped>>
    BY <1>3 DEF task_create
  <2>2. Range(ring') = Range(ring) \cup {t}
    BY <1>1, <2>1, RingAfterCreate
  <2>3. total_cycles'[t] = 0 /\ \A u \in Range(ring) : total_cycles'[u] = total_cycles[u]
    BY <1>1, <2>1
  <2>4. Accounted' \subseteq Accounted
    BY <2>2, <2>3 DEF Accounted
  <2> QED
    BY <1>1, <1>2, <1>3, <2>1, <2>4
<1>4. ASSUME NEW t \in Task, LoadTask(t) PROVE NoneTwice'
  BY <1>3, <1>4 DEF LoadTask, timer
<1>5. CASE scheduler_init
  BY <1>3, <1>5 DEF scheduler_init, arch_systick_enable_interrupt
<1>6. CASE systick_init \/ Retime \/ SaveContext \/ MoveCompare \/ PassTime \/ UNCHANGED vars
  <2>1. UNCHANGED <<current_task, stamped, ring, total_cycles>>
    BY <1>6 DEF systick_init, Retime, SaveContext, MoveCompare, PassTime, vars, tasks, accounts
  <2>2. isr \in {"resume", "lost"} => isr' \in {"resume", "lost"}
    BY <1>6 DEF systick_init, Retime, SaveContext, MoveCompare, PassTime, vars
  <2>3. cycles' = cycles \/ cycles' = cycles + 1
    BY <1>6 DEF systick_init, Retime, SaveContext, MoveCompare, PassTime, vars, timer, CountUp,
        arch_systick_init, arch_systick_set_period, arch_systick_start, arch_systick_stop,
        arch_systick_tick
  <2>4. Accounted' \subseteq Accounted
    BY <2>1 DEF Accounted
  <2> QED
    BY <1>1, <1>2, <2>1, <2>2, <2>3, <2>4
<1>7. CASE TaskExit
  <2>1. /\ ring' = Tail(ring) /\ current_task' = NULL /\ cycles' = cycles /\ ring # <<>>
        /\ total_cycles' = [total_cycles EXCEPT ![current_task] = 0]
        /\ current_task = Head(ring)
    BY <1>1, <1>7 DEF TaskExit, timer
  <2>2. Range(ring') = Range(ring) \ {current_task}
    BY <1>1, <2>1, RingAfterExit
  <2>3. \A u \in Range(ring') : total_cycles'[u] = total_cycles[u]
    BY <1>1, <2>1, <2>2
  <2>4. Accounted' \subseteq Accounted
    BY <2>2, <2>3 DEF Accounted
  <2>5. Cardinality(Accounted') <= Cardinality(Accounted) /\ Cardinality(Accounted) \in Nat
    BY <2>4, AccountShrinks
  <2>6. Cardinality(Accounted') \in Nat
    BY AccountedNumber
  <2> QED
    BY <1>1, <2>1, <2>5, <2>6 DEF NoneTwice, NoCycleTwice
<1>8. ASSUME isr = "switch", AddCycles, Range(ring') = Range(ring), cycles' = cycles,
             isr' \in {"resume", "lost"}
      PROVE  NoneTwice'
  <2>1. Cardinality(Accounted') \in Nat /\ Cardinality(Accounted) \in Nat
    BY AccountedNumber
  <2>2. CASE current_task = NULL
    <3>1. Accounted' \subseteq Accounted
      BY <1>8, <2>2 DEF AddCycles, Accounted
    <3> QED
      BY <1>1, <1>8, <2>1, <3>1, AccountShrinks DEF NoneTwice, NoCycleTwice
  <2>3. CASE current_task # NULL
    <3> DEFINE added == (Count - last_count[current_task]) % CountModulus
    <3>1. total_cycles' = [total_cycles EXCEPT ![current_task] = @ + added]
      BY <1>8, <2>3 DEF AddCycles
    <3>2. added \in Nat /\ added <= cycles - stamped
      BY <1>8, <2>3, SliceAdded
    <3> HIDE DEF added
    <3>3. Cardinality(Accounted') <= Cardinality(Accounted) + added
      BY <1>1, <1>8, <2>3, <3>1, <3>2, AccountGrows
    <3>4. Cardinality(Accounted) <= stamped
      BY <1>8, <2>3 DEF NoneTwice
    <3> QED
      BY <1>1, <1>8, <2>1, <3>2, <3>3, <3>4 DEF NoneTwice, NoCycleTwice
  <2> QED
    BY <2>2, <2>3
<1>9. CASE switch_to_next
  <2>1. /\ isr = "switch" /\ ring # <<>> /\ AddCycles /\ isr' = "resume" /\ cycles' = cycles
        /\ ring' = IF Len(ring) = 1 THEN ring ELSE Append(Tail(ring), Head(ring))
    BY <1>9 DEF switch_to_next, timer
  <2>2. Range(ring') = Range(ring)
    BY <1>1, <2>1, RingAfterSwitch
  <2> QED
    BY <1>8, <2>1, <2>2
<1>10. CASE FallOff
  <2>1. /\ isr = "switch" /\ isr' = "lost" /\ cycles' = cycles
        /\ UNCHANGED <<ring, current_task, stamped>>
    BY <1>10 DEF FallOff, timer, tasks
  <2>2. CASE AddCycles
    BY <1>8, <2>1, <2>2
  <2>3. CASE UNCHANGED <<total_cycles, overlong>>
    <3>1. Accounted' \subseteq Accounted
      BY <2>1, <2>3 DEF Accounted
    <3> QED
      BY <1>1, <1>2, <2>1, <3>1
  <2> QED
    BY <1>10, <2>2, <2>3 DEF FallOff
<1>11. CASE Resume
  <2>1. /\ stamped' = cycles /\ cycles' = cycles /\ UNCHANGED <<ring, total_cycles>>
    BY <1>11 DEF Resume, timer
  <2>2. Accounted' = Accounted
    BY <2>1 DEF Accounted
  <2> QED
    BY <2>1, <2>2 DEF NoneTwice, NoCycleTwice
<1> QED
  BY <1>4, <1>5, <1>6, <1>7, <1>9, <1>10, <1>11 DEF Next

-----------------------------------------------------------------------------
(* The theorems. *)

\* The interrupt of core_timer_isr is pending, or in its first step, exactly
\* when a period has passed since the last was due, unless something came too
\* late for the timer or retimed it: for any width of Count and any period.
THEOREM InterruptWhenDue == Spec => []TickWhenDue
<1>1. TimerInductive => TickWhenDue
  BY DEF TimerInductive, TimerOnTime, TickWhenDue
<1> QED
  BY <1>1, TimerAlways, PTL

\* Across core_timer_isr, switch_to_next and cpu_context_restore a task keeps
\* its registers but at, and a new one begins at its entry.
THEOREM RegistersSurviveInterrupt == Spec => []ContextKept
<1>1. TimerInductive => ContextKept
  BY DEF TimerInductive
<1> QED
  BY <1>1, TimerAlways, PTL

\* The 32-bit differences of switch_to_next account every cycle to the task
\* that executed it while no slice outlasts a turn of Count, and none of them
\* accounts a cycle a second time, to the same task or to another.
THEOREM CyclesAreAccounted == Spec => []CyclesAccounted
<1>1. TimerInductive => EveryCycleAccounted
  <2> SUFFICES ASSUME TimerInductive, ~overlong, NEW t \in Range(ring)
               PROVE  executed[t] <= total_cycles[t] +
                         (IF t = current_task /\ isr # "resume" THEN cycles - stamped ELSE 0)
    BY DEF EveryCycleAccounted, task_get_cycles
  <2> QED
    BY DEF TimerInductive, ExecutedAccounted
<1>2. Init => NoneTwice
  <2> SUFFICES ASSUME Init PROVE NoneTwice
    OBVIOUS
  <2>1. ring = <<>> /\ cycles = 0 /\ current_task = NULL
    BY DEF Init, TimerInit
  <2>2. Accounted = {}
    BY <2>1 DEF Accounted, Range
  <2> QED
    BY <2>1, <2>2, FS_EmptySet DEF NoneTwice, NoCycleTwice
<1>3. TimerInductive /\ TimerInductive' /\ NoneTwice /\ [Next]_vars => NoneTwice'
  BY NoneTwiceStep
<1>4. Spec => []NoneTwice
  BY <1>2, <1>3, TimerAlways, PTL DEF Spec
<1>5. TimerInductive /\ NoneTwice => CyclesAccounted
  BY <1>1 DEF CyclesAccounted, NoneTwice
<1> QED
  BY <1>4, <1>5, TimerAlways, PTL
=============================================================================
