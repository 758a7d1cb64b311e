--------------------------- MODULE DevicesProofs ---------------------------
(***************************************************************************)
(* What Devices guarantees for any number of callers and devices, any size *)
(* of the tables and any number of registrations.                          *)
(***************************************************************************)
EXTENDS Devices, SequenceTheorems, WellFoundedInduction, NaturalsInduction, TLAPS

\* The phases of a registration, of a removal, and those before the device
\* stands in a table.
Registering == {"insert", "store", "added", "first?", "activate"}
Leaving == {"base", "removed", "release"}
Entering == {"insert", "store"}

\* Where a caller can have come to.
Phase == {"idle", "insert", "store", "added", "first?", "activate", "found", "switch",
          "base", "removed", "release"}

\* Nobody has registered a device that was in use.
Once == "twice" \notin incidents

\* Nothing was pulled from under a caller, and nothing moved.
Steady == incidents \cap {"unplugged", "shifted"} = {}

\* What the place a caller has come to says of its device.
PhasesFit ==
    \A t \in Caller :
        /\ dev[t] = NULL <=> pc[t] = "idle"
        /\ pc[t] \in {"store", "base"} => dev[t] \in Storage
        /\ pc[t] \in {"insert", "added"} => dev[t] \notin Storage
        /\ pc[t] \in {"first?", "activate"} => dev[t] \in Console
        /\ pc[t] = "switch" /\ Once /\ Steady => dev[t] \in Console
        /\ pc[t] = "found" => slot[t] # 0

\* A device is registered by one caller and removed by one, and nobody removes
\* it before it stands in a table.
OneAtATime ==
    \A t, u \in Caller : dev[t] = dev[u] /\ t # u =>
        /\ ~(pc[t] \in Registering /\ pc[u] \in Registering)
        /\ ~(pc[t] \in Leaving /\ pc[u] \in Leaving)
        /\ ~(pc[t] \in Entering /\ pc[u] \in Leaving)

\* Where the device is not before it is inserted and when it is removed.
NotYetOrNoMore ==
    \A t \in Caller :
        /\ pc[t] \in Entering \cup Leaving => ~Contains(storage_devs, dev[t])
        /\ pc[t] \in Entering \cup (Leaving \ {"base"}) => ~Contains(devices, dev[t])
        /\ pc[t] \in Entering => dev[t] \notin freed

\* Whoever has passed the test of a bound finds room.
RoomForTested ==
    "crowded" \notin incidents =>
        \A t \in Caller : /\ pc[t] = "insert" => Len(devices) < MaxDevices
                          /\ pc[t] = "store" => Len(storage_devs) < MaxStorage

\* A device that is being announced, chosen or activated, or is active, is
\* still in the table.
StillPlugged ==
    /\ "outrun" \notin incidents => \A t \in Caller : pc[t] = "added" => Contains(devices, dev[t])
    /\ Steady =>
         /\ \A t \in Caller : pc[t] \in {"added", "first?", "activate", "found", "switch"} =>
               Contains(devices, dev[t])
         /\ active_console # NULL => Contains(devices, active_console)

\* The events say of a device that it is there from when its registration has
\* announced it until its removal has.
Present(d) ==
    \/ Contains(devices, d) /\ \A t \in Caller : dev[t] = d => pc[t] # "added"
    \/ \E t \in Caller : dev[t] = d /\ pc[t] = "removed"

EventsTell ==
    \A d \in Dev : d \in Storage \/ "outrun" \notin incidents =>
        announced[d] = IF Present(d) THEN 1 ELSE 0

\* Only a console is active.  Without an active console, whoever registers one
\* is still at it; and there is none while the first is chosen.
ConsoleChosen ==
    /\ Once /\ Steady /\ active_console # NULL => active_console \in Console
    /\ active_console = NULL => \A d \in Console : Contains(devices, d) =>
            \E t \in Caller : dev[t] = d /\ pc[t] \in {"added", "first?", "activate"}
    /\ "two_first" \notin incidents => \A t \in Caller : pc[t] = "activate" =>
            active_console = NULL /\ \A u \in Caller \ {t} : pc[u] # "activate"

DevicesInductive ==
    /\ RegistryInvariant
    /\ PhasesFit
    /\ Once => OneAtATime /\ NotYetOrNoMore /\ EventsTell
    /\ RoomForTested
    /\ StillPlugged
    /\ ConsoleChosen

-----------------------------------------------------------------------------
(* The tables. *)

\* The two ways to say that a device stands in a table.
LEMMA RangeContains ==
    ASSUME NEW S, NEW s \in Seq(S)
    PROVE  \A e : e \in Range(s) <=> Contains(s, e)
  BY LenProperties DEF Range, Contains

\* What adding a device behind the others does to a table.
LEMMA AppendTable ==
    ASSUME NEW S, NEW s \in Seq(S), NEW d \in S
    PROVE  /\ Append(s, d) \in Seq(S)
           /\ Len(Append(s, d)) = Len(s) + 1
           /\ \A e : Contains(Append(s, d), e) <=> Contains(s, e) \/ e = d
           /\ IsInjective(s) /\ ~Contains(s, d) => IsInjective(Append(s, d))
<1>1. /\ Append(s, d) \in Seq(S)
      /\ Len(Append(s, d)) = Len(s) + 1
      /\ DOMAIN s = 1 .. Len(s) /\ DOMAIN Append(s, d) = 1 .. Len(s) + 1
      /\ \A k \in 1 .. Len(s) : Append(s, d)[k] = s[k]
      /\ Append(s, d)[Len(s) + 1] = d
      /\ Len(s) \in Nat
  BY AppendProperties, LenProperties
<1>2. \A k \in 1 .. Len(s) + 1 : k \in 1 .. Len(s) \/ k = Len(s) + 1
  BY <1>1
<1>3. \A k \in 1 .. Len(s) : k \in 1 .. Len(s) + 1 /\ Len(s) + 1 \in 1 .. Len(s) + 1
  BY <1>1
<1>4. ASSUME NEW e PROVE Contains(Append(s, d), e) <=> Contains(s, e) \/ e = d
  <2>1. ASSUME Contains(Append(s, d), e) PROVE Contains(s, e) \/ e = d
    BY <1>1, <1>2, <2>1 DEF Contains
  <2>2. ASSUME Contains(s, e) PROVE Contains(Append(s, d), e)
    BY <1>1, <1>3, <2>2 DEF Contains
  <2>3. Len(s) + 1 \in 1 .. Len(Append(s, d))
    BY <1>1
  <2>4. Contains(Append(s, d), d)
    BY <1>1, <2>3 DEF Contains
  <2> QED
    BY <2>1, <2>2, <2>4
<1>5. IsInjective(s) /\ ~Contains(s, d) => IsInjective(Append(s, d))
  BY <1>1, <1>2 DEF IsInjective, Contains
<1> QED
  BY <1>1, <1>4, <1>5

\* The entries above place p move down by one.
LEMMA RemoveAtEntries ==
    ASSUME NEW S, NEW s \in Seq(S), NEW p \in 1 .. Len(s)
    PROVE  /\ RemoveAt(s, p) \in Seq(S)
           /\ Len(RemoveAt(s, p)) = Len(s) - 1
           /\ \A k \in 1 .. Len(s) - 1 :
                RemoveAt(s, p)[k] = IF k < p THEN s[k] ELSE s[k + 1]
<1> DEFINE a == SubSeq(s, 1, p - 1)
           b == SubSeq(s, p + 1, Len(s))
<1>1. Len(s) \in Nat /\ p \in Nat /\ 1 <= p /\ p <= Len(s)
  BY LenProperties
<1>2. \A k \in 1 .. Len(s) : s[k] \in S
  BY ElementOfSeq
<1>3. a \in Seq(S) /\ Len(a) = p - 1 /\ \A k \in 1 .. p - 1 : a[k] = s[k]
  <2>1. 1 \in Int /\ p - 1 \in Int /\ \A k \in 1 .. p - 1 : s[k] \in S
    BY <1>1, <1>2
  <2>2. /\ a \in Seq(S)
        /\ Len(a) = IF 1 <= p - 1 THEN (p - 1) - 1 + 1 ELSE 0
        /\ \A k \in 1 .. (p - 1) - 1 + 1 : a[k] = s[1 + k - 1]
    BY <2>1, SubSeqProperties
  <2> QED
    BY <1>1, <2>2
<1>4. b \in Seq(S) /\ Len(b) = Len(s) - p /\ \A k \in 1 .. Len(s) - p : b[k] = s[p + k]
  <2>1. p + 1 \in Int /\ Len(s) \in Int /\ \A k \in p + 1 .. Len(s) : s[k] \in S
    BY <1>1, <1>2
  <2>2. /\ b \in Seq(S)
        /\ Len(b) = IF p + 1 <= Len(s) THEN Len(s) - (p + 1) + 1 ELSE 0
        /\ \A k \in 1 .. Len(s) - (p + 1) + 1 : b[k] = s[(p + 1) + k - 1]
    BY <2>1, SubSeqProperties
  <2> HIDE DEF b
  <2>3. Len(b) = Len(s) - p
    <3>1. CASE p + 1 <= Len(s)
      <4>1. Len(b) = Len(s) - (p + 1) + 1
        BY <2>2, <3>1
      <4>2. Len(s) - (p + 1) + 1 = Len(s) - p
        BY <1>1
      <4> QED
        BY <4>1, <4>2
    <3>2. CASE ~(p + 1 <= Len(s))
      <4>1. Len(b) = 0
        BY <2>2, <3>2
      <4>2. Len(s) - p = 0
        BY <1>1, <3>2
      <4> QED
        BY <4>1, <4>2
    <3> QED
      BY <3>1, <3>2
  <2>4. ASSUME NEW k \in 1 .. Len(s) - p PROVE b[k] = s[p + k]
    <3>1. k \in 1 .. Len(s) - (p + 1) + 1 /\ (p + 1) + k - 1 = p + k
      BY <1>1
    <3> QED
      BY <2>2, <3>1
  <2> QED
    BY <2>2, <2>3, <2>4
<1> HIDE DEF a, b
<1>5. /\ a \o b \in Seq(S) /\ Len(a \o b) = Len(a) + Len(b)
      /\ \A k \in 1 .. Len(a) + Len(b) :
            (a \o b)[k] = IF k <= Len(a) THEN a[k] ELSE b[k - Len(a)]
  BY <1>3, <1>4, ConcatProperties
<1>6. RemoveAt(s, p) = a \o b
  BY DEF RemoveAt, a, b
<1>7. ASSUME NEW k \in 1 .. Len(s) - 1
      PROVE  (a \o b)[k] = IF k < p THEN s[k] ELSE s[k + 1]
  <2>0. k \in 1 .. Len(a) + Len(b)
    BY <1>1, <1>3, <1>4
  <2>1. CASE k < p
    <3>1. k \in 1 .. p - 1 /\ k <= Len(a)
      BY <1>1, <1>3, <2>1
    <3> QED
      BY <1>3, <1>5, <2>0, <2>1, <3>1
  <2>2. CASE k >= p
    <3>1. ~(k <= Len(a)) /\ ~(k < p) /\ k - Len(a) \in 1 .. Len(s) - p /\ p + (k - Len(a)) = k + 1
      BY <1>1, <1>3, <2>2
    <3> QED
      BY <1>4, <1>5, <2>0, <3>1
  <2>3. k < p \/ k >= p
    BY <1>1
  <2> QED
    BY <2>1, <2>2, <2>3
<1>8. Len(a) + Len(b) = Len(s) - 1
  BY <1>1, <1>3, <1>4
<1> QED
  BY <1>5, <1>6, <1>7, <1>8

\* A nonempty set of numbers has a smallest: induction, for the provers here.
LEMMA SmallestPlace ==
    ASSUME NEW S, S \subseteq Nat, S # {}
    PROVE  \E m \in S : \A n \in S : m <= n
<1> DEFINE R == OpToRel(<, Nat)
<1>1. IsWellFoundedOn(R, Nat)
  BY NatLessThanWellFounded, Zenon
<1>2. \A m, n \in Nat : n < m => <<n, m>> \in R
  BY DEF OpToRel
<1> HIDE DEF R
<1>3. PICK m \in S : \A n \in S : ~(<<n, m>> \in R)
  BY <1>1, WFMin
<1>4. \A n \in S : ~(n < m) /\ n \in Nat /\ m \in Nat
  BY <1>2, <1>3
<1> QED
  BY <1>4

\* Whoever looks for a device that is there finds it.
LEMMA PlaceFound ==
    ASSUME NEW S, NEW s \in Seq(S), NEW d, Contains(s, d)
    PROVE  Place(s, d) \in 1 .. Len(s) /\ s[Place(s, d)] = d
<1> DEFINE Found == {k \in 1 .. Len(s) : s[k] = d}
<1>1. Len(s) \in Nat /\ DOMAIN s = 1 .. Len(s)
  BY LenProperties
<1>2. Found \subseteq Nat /\ Found # {}
  BY <1>1 DEF Contains
<1>3. PICK m \in Found : \A n \in Found : m <= n
  <2> HIDE DEF Found
  <2> QED
    BY <1>2, SmallestPlace
<1>4. m \in DOMAIN s /\ s[m] = d /\ \A j \in 1 .. m - 1 : s[j] # d
  <2>1. m \in 1 .. Len(s) /\ s[m] = d
    OBVIOUS
  <2>2. ASSUME NEW j \in 1 .. m - 1, s[j] = d PROVE FALSE
    <3>1. j \in 1 .. Len(s) /\ ~(m <= j)
      BY <1>1, <2>1
    <3> QED
      BY <1>3, <2>2, <3>1
  <2> QED
    BY <1>1, <2>1, <2>2
<1> DEFINE k == CHOOSE k \in DOMAIN s : s[k] = d /\ \A j \in 1 .. k - 1 : s[j] # d
<1>5. k \in DOMAIN s /\ s[k] = d
  <2> HIDE DEF Found
  <2> QED
    BY <1>4
<1>6. Place(s, d) = k
  BY DEF Place
<1> QED
  BY <1>1, <1>5, <1>6

\* What device_unregister and storage_unregister do to a table: one entry of
\* the device is gone and the others are there, and a device that stood there
\* once is there no longer.
LEMMA WithoutTable ==
    ASSUME NEW S, NEW s \in Seq(S), NEW d, Contains(s, d)
    PROVE  /\ Without(s, d) \in Seq(S)
           /\ Len(Without(s, d)) = Len(s) - 1
           /\ \A e : Contains(Without(s, d), e) => Contains(s, e)
           /\ \A e : Contains(s, e) /\ e # d => Contains(Without(s, d), e)
           /\ IsInjective(s) => IsInjective(Without(s, d)) /\ ~Contains(Without(s, d), d)
<1>1. Len(s) \in Nat /\ DOMAIN s = 1 .. Len(s)
  BY LenProperties
<1>2. PICK p \in 1 .. Len(s) : s[p] = d /\ Without(s, d) = RemoveAt(s, p)
  BY PlaceFound DEF Without
<1> DEFINE w == Without(s, d)
           old(k) == IF k < p THEN k ELSE k + 1
<1>3. /\ w \in Seq(S) /\ Len(w) = Len(s) - 1
      /\ \A k \in 1 .. Len(s) - 1 : w[k] = IF k < p THEN s[k] ELSE s[k + 1]
  BY <1>2, RemoveAtEntries
<1> HIDE DEF w
<1>4. DOMAIN w = 1 .. Len(s) - 1
  BY <1>3, LenProperties
<1>5. \A k \in 1 .. Len(s) - 1 : old(k) \in 1 .. Len(s) /\ old(k) # p /\ w[k] = s[old(k)]
  BY <1>1, <1>2, <1>3
<1>6. \A k \in 1 .. Len(s) : k # p => \E j \in 1 .. Len(s) - 1 : old(j) = k
  <2> SUFFICES ASSUME NEW k \in 1 .. Len(s), k # p
               PROVE  \E j \in 1 .. Len(s) - 1 : old(j) = k
    OBVIOUS
  <2>1. CASE k < p
    <3>1. k \in 1 .. Len(s) - 1 /\ old(k) = k
      BY <1>1, <1>2, <2>1
    <3> QED
      BY <3>1
  <2>2. CASE k > p
    <3>1. k - 1 \in 1 .. Len(s) - 1 /\ old(k - 1) = k
      BY <1>1, <1>2, <2>2
    <3> QED
      BY <3>1
  <2> QED
    BY <1>1, <1>2, <2>1, <2>2
<1>7. \A j, k \in 1 .. Len(s) - 1 : old(j) = old(k) => j = k
  BY <1>1, <1>2
<1> HIDE DEF old
<1>8. ASSUME NEW e, Contains(w, e) PROVE Contains(s, e) /\ (IsInjective(s) => e # d)
  <2>1. PICK k \in 1 .. Len(s) - 1 : w[k] = e
    BY <1>3, <1>8 DEF Contains
  <2> QED
    BY <1>1, <1>2, <1>5, <2>1 DEF Contains, IsInjective
<1>9. ASSUME NEW e, Contains(s, e), e # d PROVE Contains(w, e)
  <2>1. PICK k \in 1 .. Len(s) : s[k] = e
    BY <1>9 DEF Contains
  <2>2. PICK j \in 1 .. Len(s) - 1 : old(j) = k
    BY <1>2, <1>6, <1>9, <2>1
  <2> QED
    BY <1>3, <1>5, <2>1, <2>2 DEF Contains
<1>10. ASSUME IsInjective(s) PROVE IsInjective(w)
  <2> SUFFICES ASSUME NEW j \in 1 .. Len(s) - 1, NEW k \in 1 .. Len(s) - 1, w[j] = w[k]
               PROVE  j = k
    BY <1>4 DEF IsInjective
  <2>1. old(j) = old(k)
    BY <1>1, <1>5, <1>10 DEF IsInjective
  <2> QED
    BY <1>7, <2>1
<1> QED
  BY <1>3, <1>8, <1>9, <1>10 DEF w

\* A place within a table holds one of its devices.
LEMMA EntryThere ==
    ASSUME NEW S, NEW s \in Seq(S), NEW k \in Nat, k # 0, k <= Len(s)
    PROVE  s[k] \in S /\ Contains(s, s[k])
<1>1. k \in 1 .. Len(s)
  BY LenProperties
<1> QED
  BY <1>1, ElementOfSeq DEF Contains

-----------------------------------------------------------------------------
(* What is the same for every action. *)

\* A caller that takes up another device moves and nobody else does.
LEMMA Begun ==
    ASSUME TypeOK, NEW t \in Caller, NEW d \in Dev \cup {NULL}, NEW where \in Phase,
           Begin(t, d, where)
    PROVE  /\ pc' \in [Caller -> Phase] /\ dev' \in [Caller -> Dev \cup {NULL}]
           /\ \A u \in Caller : u # t => pc'[u] = pc[u] /\ dev'[u] = dev[u]
           /\ pc'[t] = where /\ dev'[t] = d
  BY DEF TypeOK, Begin, Phase

\* A caller that goes on keeps its device until it is done.
LEMMA Gone ==
    ASSUME TypeOK, NEW t \in Caller, NEW where \in Phase, Go(t, where)
    PROVE  /\ pc' \in [Caller -> Phase] /\ dev' \in [Caller -> Dev \cup {NULL}]
           /\ \A u \in Caller : u # t => pc'[u] = pc[u] /\ dev'[u] = dev[u]
           /\ pc'[t] = where /\ dev'[t] = IF where = "idle" THEN NULL ELSE dev[t]
<1> DEFINE d == IF where = "idle" THEN NULL ELSE dev[t]
<1>1. d \in Dev \cup {NULL}
  BY DEF TypeOK
<1>2. Begin(t, d, where)
  BY DEF Go
<1> HIDE DEF d
<1>3. /\ pc' \in [Caller -> Phase] /\ dev' \in [Caller -> Dev \cup {NULL}]
      /\ \A u \in Caller : u # t => pc'[u] = pc[u] /\ dev'[u] = dev[u]
      /\ pc'[t] = where /\ dev'[t] = d
  BY <1>1, <1>2, Begun
<1> QED
  BY <1>3 DEF d

\* What an incident leaves true when it is not recorded.
LEMMA Recorded ==
    ASSUME NEW cond, NEW what, Incident(cond, what)
    PROVE  /\ incidents \subseteq incidents' /\ incidents' \subseteq incidents \cup {what}
           /\ what \notin incidents' => ~cond
           /\ Once' => Once /\ (Steady' => Steady)
  BY DEF Incident, Once, Steady

\* What remains true of tables that an action leaves alone.
LEMMA TablesKept ==
    ASSUME TablesBounded, TablesAgree, incidents \subseteq incidents',
           UNCHANGED <<devices, storage_devs, freed>>
    PROVE  TablesBounded' /\ TablesAgree'
  BY DEF TablesBounded, TablesAgree

\* The events still tell what is there if neither has changed.
LEMMA EventsKept ==
    ASSUME EventsTell, incidents \subseteq incidents', UNCHANGED announced,
           \A d \in Dev : d \in Storage \/ "outrun" \notin incidents' =>
                (Present(d)' <=> Present(d))
    PROVE  EventsTell'
<1>1. ASSUME NEW d \in Dev, d \in Storage \/ "outrun" \notin incidents'
      PROVE  announced'[d] = IF Present(d)' THEN 1 ELSE 0
  <2>1. announced[d] = IF Present(d) THEN 1 ELSE 0
    BY <1>1 DEF EventsTell
  <2>2. Present(d)' <=> Present(d)
    BY <1>1
  <2> QED
    BY <2>1, <2>2
<1> QED
  BY <1>1 DEF EventsTell

-----------------------------------------------------------------------------
(* One lemma per action; the conjuncts the action can disturb in turn. *)

\* A device that comes to be registered is new to everybody, unless that is
\* recorded.
LEMMA RegisterTestStep ==
    ASSUME DevicesInductive, NEW t \in Caller, NEW d \in Dev, RegisterTest(t, d)
    PROVE  DevicesInductive'
<1> USE DeviceAssumption
<1>0. /\ TypeOK /\ TablesBounded /\ TablesAgree /\ PhasesFit /\ RoomForTested
      /\ StillPlugged /\ ConsoleChosen
      /\ Once => OneAtATime /\ NotYetOrNoMore /\ EventsTell
  BY DEF DevicesInductive, RegistryInvariant
<1>1. /\ pc[t] = "idle" /\ d \notin freed
      /\ \/ d \in Storage /\ Len(storage_devs) < MaxStorage /\ Begin(t, d, "store")
         \/ d \notin Storage /\ Len(devices) < MaxDevices /\ Begin(t, d, "insert")
      /\ UNCHANGED <<devices, storage_devs, active_console, slot, freed, announced>>
      /\ Incident(InUse(d), "twice")
  BY DEF RegisterTest, tables
<1>2. registered' \in [Dev -> Nat]
  BY <1>0 DEF RegisterTest, TypeOK
<1>3. /\ pc' \in [Caller -> Phase] /\ dev' \in [Caller -> Dev \cup {NULL}]
      /\ \A u \in Caller : u # t => pc'[u] = pc[u] /\ dev'[u] = dev[u]
      /\ dev'[t] = d /\ pc'[t] \in {"store", "insert"}
      /\ pc'[t] = "store" => d \in Storage /\ Len(storage_devs) < MaxStorage
      /\ pc'[t] = "insert" => d \notin Storage /\ Len(devices) < MaxDevices
  <2>1. CASE d \in Storage /\ Len(storage_devs) < MaxStorage /\ Begin(t, d, "store")
    <3>1. "store" \in Phase /\ d \in Dev \cup {NULL}
      BY DEF Phase
    <3> QED
      BY <1>0, <2>1, <3>1, Begun
  <2>2. CASE d \notin Storage /\ Len(devices) < MaxDevices /\ Begin(t, d, "insert")
    <3>1. "insert" \in Phase /\ d \in Dev \cup {NULL}
      BY DEF Phase
    <3> QED
      BY <1>0, <2>2, <3>1, Begun
  <2> QED
    BY <1>1, <2>1, <2>2
<1>4. /\ incidents \subseteq incidents' /\ incidents' \subseteq incidents \cup {"twice"}
      /\ Once' => Once /\ ~InUse(d)
  BY <1>1, Recorded DEF Once
<1>5. Once' => /\ ~Contains(devices, d) /\ ~Contains(storage_devs, d)
               /\ \A u \in Caller : dev[u] = d => pc[u] \in {"found", "switch"}
  BY <1>4 DEF InUse
<1>6. TypeOK'
  BY <1>0, <1>1, <1>2, <1>3, <1>4 DEF TypeOK, Phase
<1>7. TablesBounded' /\ TablesAgree'
  BY <1>0, <1>1, <1>4, TablesKept
<1>8. PhasesFit'
  BY <1>0, <1>1, <1>3, <1>4 DEF PhasesFit, Once, Steady
<1>9. RoomForTested' /\ StillPlugged'
  BY <1>0, <1>1, <1>3, <1>4 DEF RoomForTested, StillPlugged, Steady
<1>10. ConsoleChosen'
  BY <1>0, <1>1, <1>3, <1>4 DEF ConsoleChosen, Once, Steady
<1>11. Once' => OneAtATime' /\ NotYetOrNoMore'
  <2> SUFFICES ASSUME Once' PROVE OneAtATime' /\ NotYetOrNoMore'
    OBVIOUS
  <2>1. OneAtATime'
    BY <1>0, <1>3, <1>4, <1>5 DEF OneAtATime, Entering, Registering, Leaving
  <2>2. NotYetOrNoMore'
    BY <1>0, <1>1, <1>3, <1>4, <1>5 DEF NotYetOrNoMore, Entering, Leaving
  <2> QED
    BY <2>1, <2>2
<1>12. Once' => EventsTell'
  <2>1. \A e \in Dev : Present(e)' <=> Present(e)
    BY <1>0, <1>1, <1>3 DEF Present, PhasesFit
  <2> QED
    BY <1>0, <1>1, <1>4, <2>1, EventsKept
<1> QED
  BY <1>6, <1>7, <1>8, <1>9, <1>10, <1>11, <1>12 DEF DevicesInductive, RegistryInvariant

\* A device that goes into the table was in none.
LEMMA RegisterInsertStep ==
    ASSUME DevicesInductive, NEW t \in Caller, RegisterInsert(t)
    PROVE  DevicesInductive'
<1> USE DeviceAssumption
<1>0. /\ TypeOK /\ TablesBounded /\ TablesAgree /\ PhasesFit /\ RoomForTested
      /\ StillPlugged /\ ConsoleChosen
      /\ Once => OneAtATime /\ NotYetOrNoMore /\ EventsTell
  BY DEF DevicesInductive, RegistryInvariant
<1>d. PICK d \in Dev : d = dev[t]
  BY <1>0 DEF RegisterInsert, PhasesFit, TypeOK
<1>1. /\ pc[t] = "insert"
      /\ devices' = Append(devices, d)
      /\ UNCHANGED <<storage_devs, active_console, slot, freed, registered, announced>>
      /\ Incident(Others(t, "insert"), "crowded")
      /\ Go(t, "added")
  BY <1>d DEF RegisterInsert
<1>2. /\ pc' \in [Caller -> Phase] /\ dev' \in [Caller -> Dev \cup {NULL}]
      /\ \A u \in Caller : u # t => pc'[u] = pc[u] /\ dev'[u] = dev[u]
      /\ pc'[t] = "added" /\ dev'[t] = d
  <2>1. "added" \in Phase
    BY DEF Phase
  <2> QED
    BY <1>d, <1>0, <1>1, <2>1, Gone
<1>3. /\ incidents \subseteq incidents' /\ incidents' \subseteq incidents \cup {"crowded"}
      /\ "crowded" \notin incidents' => \A u \in Caller : pc[u] = "insert" => u = t
      /\ Once' => Once
  BY <1>d, <1>1, Recorded DEF Others
<1>4. /\ d \in Dev /\ d \notin Storage
      /\ Once => /\ ~Contains(devices, d) /\ ~Contains(storage_devs, d) /\ d \notin freed
                 /\ \A u \in Caller : dev[u] = d /\ u # t => pc[u] \notin Registering \cup Leaving
  BY <1>d, <1>0, <1>1 DEF PhasesFit, OneAtATime, NotYetOrNoMore, Entering, Registering, TypeOK
<1>5. /\ devices' \in Seq(Dev)
      /\ Len(devices') = Len(devices) + 1
      /\ \A e : Contains(devices', e) <=> Contains(devices, e) \/ e = d
      /\ Once => IsInjective(devices')
  BY <1>d, <1>0, <1>1, <1>4, AppendTable DEF TypeOK, TablesAgree, Once
<1>6. Len(devices) \in Nat /\ MaxDevices \in Nat
  BY <1>d, <1>0, LenProperties DEF TypeOK
<1>20. UNCHANGED <<storage_devs, active_console, slot, freed, registered, announced>>
  BY <1>d, <1>1
<1>21. pc[t] = "insert"
  BY <1>d, <1>1
<1>7. TypeOK'
  BY <1>d, <1>0, <1>2, <1>3, <1>5, <1>20 DEF TypeOK, Phase
<1>8. TablesBounded' /\ RoomForTested'
  <2>1. "crowded" \notin incidents' => Len(devices) < MaxDevices
    BY <1>d, <1>0, <1>3, <1>21 DEF RoomForTested
  <2>2. "crowded" \notin incidents' => \A u \in Caller : pc'[u] # "insert"
    BY <1>d, <1>2, <1>3
  <2> QED
    BY <1>d, <1>0, <1>2, <1>3, <1>5, <1>6, <1>20, <2>1, <2>2 DEF TablesBounded, RoomForTested
<1>9. TablesAgree'
  <2> SUFFICES ASSUME Once'
               PROVE  /\ \A e \in Dev : Contains(devices', e) \/ Contains(storage_devs', e)
                                           => e \notin freed'
                      /\ IsInjective(devices') /\ IsInjective(storage_devs')
                      /\ "table_full" \notin incidents' =>
                            Range(storage_devs') \subseteq Range(devices')
    BY DEF TablesAgree, Once
  <2>0. Once /\ TablesAgree
    BY <1>d, <1>0, <1>3
  <2>1. /\ \A e : e \in Range(devices) <=> Contains(devices, e)
        /\ \A e : e \in Range(devices') <=> Contains(devices', e)
    BY <1>d, <1>0, <1>5, RangeContains DEF TypeOK
  <2>2. "table_full" \notin incidents' => Range(storage_devs') \subseteq Range(devices')
    BY <1>d, <1>3, <1>5, <1>20, <2>0, <2>1 DEF TablesAgree, Once
  <2> QED
    BY <1>d, <1>4, <1>5, <1>20, <2>0, <2>2 DEF TablesAgree, Once
<1>10. PhasesFit'
  BY <1>d, <1>0, <1>2, <1>3, <1>4, <1>20 DEF PhasesFit, Once, Steady, TypeOK
<1>11. StillPlugged'
  BY <1>d, <1>0, <1>2, <1>3, <1>5, <1>20 DEF StillPlugged, Steady
<1>12. ConsoleChosen'
  <2>1. \A e \in Console : Contains(devices', e) => Contains(devices, e) \/ e = d
    BY <1>d, <1>5
  <2> QED
    BY <1>d, <1>0, <1>2, <1>3, <1>20, <1>21, <1>5, <2>1 DEF ConsoleChosen, Once, Steady
<1>13. Once' => OneAtATime' /\ NotYetOrNoMore'
  <2> SUFFICES ASSUME Once' PROVE OneAtATime' /\ NotYetOrNoMore'
    OBVIOUS
  <2>1. OneAtATime'
    BY <1>d, <1>0, <1>2, <1>3, <1>21 DEF OneAtATime, Entering, Registering, Leaving
  <2>2. NotYetOrNoMore'
    BY <1>d, <1>0, <1>2, <1>3, <1>4, <1>5, <1>20 DEF NotYetOrNoMore, Entering, Leaving, Registering
  <2> QED
    BY <2>1, <2>2
<1>14. Once' => EventsTell'
  <2> SUFFICES ASSUME Once' PROVE EventsTell'
    OBVIOUS
  <2>1. ASSUME NEW e \in Dev PROVE Present(e)' <=> Present(e)
    <3>1. CASE e = d
      <4>1. ~Present(d)
        BY <1>d, <1>3, <1>4, <1>21 DEF Present, Leaving
      <4>2. ~Present(d)'
        BY <1>d, <1>2, <1>3, <1>4, <1>21 DEF Present, Leaving
      <4> QED
        BY <3>1, <4>1, <4>2
    <3>2. CASE e # d
      BY <1>d, <1>2, <1>5, <1>21, <3>2 DEF Present
    <3> QED
      BY <3>1, <3>2
  <2> QED
    BY <1>d, <1>0, <1>3, <1>20, <2>1, EventsKept
<1> QED
  BY <1>7, <1>8, <1>9, <1>10, <1>11, <1>12, <1>13, <1>14 DEF DevicesInductive, RegistryInvariant

\* The event of a registration follows the one of the removal before it.
LEMMA RegisterAnnounceStep ==
    ASSUME DevicesInductive, NEW t \in Caller, RegisterAnnounce(t)
    PROVE  DevicesInductive'
<1> USE DeviceAssumption
<1>0. /\ TypeOK /\ TablesBounded /\ TablesAgree /\ PhasesFit /\ RoomForTested
      /\ StillPlugged /\ ConsoleChosen
      /\ Once => OneAtATime /\ NotYetOrNoMore /\ EventsTell
  BY DEF DevicesInductive, RegistryInvariant
<1>d. PICK d \in Dev : d = dev[t]
  BY <1>0 DEF RegisterAnnounce, PhasesFit, TypeOK
<1>1. /\ pc[t] = "added"
      /\ announced' = [announced EXCEPT ![d] = @ + 1]
      /\ UNCHANGED <<devices, storage_devs, active_console, slot, freed, registered, incidents>>
      /\ Go(t, IF d \in Console THEN "first?" ELSE "idle")
  BY <1>d DEF RegisterAnnounce, Announce, tables
<1>2. /\ pc' \in [Caller -> Phase] /\ dev' \in [Caller -> Dev \cup {NULL}]
      /\ \A u \in Caller : u # t => pc'[u] = pc[u] /\ dev'[u] = dev[u]
      /\ \/ d \in Console /\ pc'[t] = "first?" /\ dev'[t] = d
         \/ d \notin Console /\ pc'[t] = "idle" /\ dev'[t] = NULL
  <2>1. "first?" \in Phase /\ "idle" \in Phase
    BY DEF Phase
  <2>2. CASE d \in Console /\ Go(t, "first?")
    BY <1>d, <1>0, <2>1, <2>2, Gone
  <2>3. CASE d \notin Console /\ Go(t, "idle")
    BY <1>d, <1>0, <2>1, <2>3, Gone
  <2> QED
    BY <1>d, <1>1, <2>2, <2>3
<1>3. UNCHANGED <<devices, storage_devs, active_console, slot, freed, registered, incidents>>
  BY <1>d, <1>1
<1>4. pc[t] = "added"
  BY <1>d, <1>1
<1>5. /\ d \in Dev /\ d \notin Storage
      /\ Once => \A u \in Caller : dev[u] = d /\ u # t => pc[u] \notin Registering
  BY <1>d, <1>0, <1>1 DEF PhasesFit, OneAtATime, Registering, TypeOK
<1>6. /\ announced' \in [Dev -> Int]
      /\ \A e \in Dev : e # d => announced'[e] = announced[e]
      /\ announced'[d] = announced[d] + 1
  BY <1>d, <1>0, <1>1, <1>5 DEF TypeOK
<1>7. TypeOK'
  BY <1>d, <1>0, <1>2, <1>3, <1>6 DEF TypeOK, Phase
<1>8. TablesBounded' /\ TablesAgree'
  BY <1>d, <1>0, <1>3, TablesKept
<1>9. PhasesFit'
  BY <1>d, <1>0, <1>2, <1>3, <1>5 DEF PhasesFit, Once, Steady
<1>10. RoomForTested' /\ StillPlugged'
  BY <1>d, <1>0, <1>2, <1>3, <1>4 DEF RoomForTested, StillPlugged, Steady
<1>11. ConsoleChosen'
  BY <1>d, <1>0, <1>2, <1>3, <1>4 DEF ConsoleChosen, Once, Steady
<1>12. Once' => OneAtATime' /\ NotYetOrNoMore'
  <2> SUFFICES ASSUME Once' PROVE OneAtATime' /\ NotYetOrNoMore'
    OBVIOUS
  <2>0. Once /\ OneAtATime /\ NotYetOrNoMore
    BY <1>d, <1>0, <1>3 DEF Once
  <2>1. OneAtATime'
    BY <1>d, <1>2, <1>4, <2>0 DEF OneAtATime, Entering, Registering, Leaving
  <2>2. NotYetOrNoMore'
    BY <1>d, <1>2, <1>3, <2>0 DEF NotYetOrNoMore, Entering, Leaving
  <2> QED
    BY <2>1, <2>2
<1>13. Once' => EventsTell'
  <2> SUFFICES ASSUME Once', NEW e \in Dev, e \in Storage \/ "outrun" \notin incidents
               PROVE  announced'[e] = IF Present(e)' THEN 1 ELSE 0
    BY <1>d, <1>3 DEF EventsTell
  <2>0. Once /\ OneAtATime /\ NotYetOrNoMore /\ EventsTell
    BY <1>d, <1>0, <1>3 DEF Once
  <2>1. CASE e = d
    <3>1. "outrun" \notin incidents /\ Contains(devices, d)
      BY <1>d, <1>0, <1>4, <1>5, <2>1 DEF StillPlugged
    <3>2. ~Present(d)
      BY <1>d, <1>4, <2>0, <3>1 DEF Present, NotYetOrNoMore, Leaving
    <3>3. announced[d] = 0
      BY <1>d, <1>5, <2>0, <2>1, <3>1, <3>2 DEF EventsTell
    <3>4. \A u \in Caller : dev'[u] = d => pc'[u] # "added"
      BY <1>d, <1>2, <1>5, <2>0 DEF Registering
    <3>5. Present(d)'
      BY <1>d, <1>3, <3>1, <3>4 DEF Present
    <3> QED
      BY <1>d, <1>6, <2>1, <3>3, <3>5
  <2>2. CASE e # d
    <3>1. Present(e)' <=> Present(e)
      BY <1>d, <1>0, <1>2, <1>3, <1>4, <2>2 DEF Present
    <3>2. announced[e] = IF Present(e) THEN 1 ELSE 0
      BY <2>0 DEF EventsTell
    <3> QED
      BY <1>d, <1>6, <2>2, <3>1, <3>2
  <2> QED
    BY <2>1, <2>2
<1> QED
  BY <1>7, <1>8, <1>9, <1>10, <1>11, <1>12, <1>13 DEF DevicesInductive, RegistryInvariant

\* A storage device goes into its table, and into the registry if it has room.
LEMMA StorageInsertStep ==
    ASSUME DevicesInductive, NEW t \in Caller, StorageInsert(t)
    PROVE  DevicesInductive'
<1> USE DeviceAssumption
<1>0. /\ TypeOK /\ TablesBounded /\ TablesAgree /\ PhasesFit /\ RoomForTested
      /\ StillPlugged /\ ConsoleChosen
      /\ Once => OneAtATime /\ NotYetOrNoMore /\ EventsTell
  BY DEF DevicesInductive, RegistryInvariant
<1>d. PICK d \in Dev : d = dev[t]
  BY <1>0 DEF StorageInsert, PhasesFit, TypeOK
<1>1. /\ pc[t] = "store"
      /\ storage_devs' = Append(storage_devs, d)
      /\ Go(t, "idle")
      /\ UNCHANGED <<active_console, slot, freed, registered>>
  BY <1>d DEF StorageInsert
<1>2. /\ pc' \in [Caller -> Phase] /\ dev' \in [Caller -> Dev \cup {NULL}]
      /\ \A u \in Caller : u # t => pc'[u] = pc[u] /\ dev'[u] = dev[u]
      /\ pc'[t] = "idle" /\ dev'[t] = NULL
  <2>1. "idle" \in Phase
    BY DEF Phase
  <2> QED
    BY <1>d, <1>0, <1>1, <2>1, Gone
<1>3. \/ /\ Len(devices) < MaxDevices
         /\ devices' = Append(devices, d)
         /\ announced' = [announced EXCEPT ![d] = @ + 1]
         /\ incidents' = IF \E u \in Caller \ {t} : pc[u] \in {"store", "insert"}
                         THEN incidents \cup {"crowded"} ELSE incidents
      \/ /\ UNCHANGED <<devices, announced>>
         /\ Len(devices) >= MaxDevices
         /\ incidents' = incidents \cup {"table_full"} \cup
               (IF \E u \in Caller \ {t} : pc[u] = "store" THEN {"crowded"} ELSE {})
  BY <1>d DEF StorageInsert, Announce, Incident, Others
<1>4. /\ incidents \subseteq incidents'
      /\ incidents' \subseteq incidents \cup {"table_full", "crowded"}
      /\ Once' => Once
      /\ Steady' => Steady
  BY <1>3 DEF Once, Steady
<1>5. pc[t] = "store" /\ UNCHANGED <<active_console, slot, freed, registered>>
  BY <1>1
<1>6. /\ d \in Storage /\ d \notin Console
      /\ Once => /\ ~Contains(devices, d) /\ ~Contains(storage_devs, d) /\ d \notin freed
                 /\ \A u \in Caller : dev[u] = d /\ u # t => pc[u] \notin Registering \cup Leaving
  BY <1>d, <1>0, <1>5 DEF PhasesFit, OneAtATime, NotYetOrNoMore, Entering, Registering
<1>7. /\ storage_devs' \in Seq(Storage)
      /\ Len(storage_devs') = Len(storage_devs) + 1
      /\ \A e : Contains(storage_devs', e) <=> Contains(storage_devs, e) \/ e = d
      /\ Once => IsInjective(storage_devs')
  BY <1>0, <1>1, <1>6, AppendTable DEF TypeOK, TablesAgree, Once
<1>8. /\ Append(devices, d) \in Seq(Dev)
      /\ Len(Append(devices, d)) = Len(devices) + 1
      /\ \A e : Contains(Append(devices, d), e) <=> Contains(devices, e) \/ e = d
      /\ Once => IsInjective(Append(devices, d))
  BY <1>0, <1>6, AppendTable DEF TypeOK, TablesAgree, Once
<1>9. /\ devices' \in Seq(Dev) /\ (Once => IsInjective(devices'))
      /\ \A e : Contains(devices', e) => Contains(devices, e) \/ e = d
      /\ \A e : Contains(devices, e) => Contains(devices', e)
      /\ Contains(devices', d) \/ "table_full" \in incidents'
  <2>1. CASE devices' = Append(devices, d)
    BY <1>8, <2>1
  <2>2. CASE devices' = devices /\ "table_full" \in incidents'
    BY <1>0, <2>2 DEF TypeOK, TablesAgree, Once
  <2> QED
    BY <1>3, <2>1, <2>2
<1>10. Len(devices) \in Nat /\ Len(storage_devs) \in Nat
  BY <1>0, LenProperties DEF TypeOK
<1>11. /\ announced' \in [Dev -> Int]
       /\ \A e \in Dev : e # d => announced'[e] = announced[e]
       /\ \/ devices' = Append(devices, d) /\ announced'[d] = announced[d] + 1
          \/ devices' = devices /\ announced'[d] = announced[d]
  <2>1. CASE devices' = Append(devices, d) /\ announced' = [announced EXCEPT ![d] = @ + 1]
    BY <1>0, <2>1 DEF TypeOK
  <2>2. CASE UNCHANGED <<devices, announced>>
    BY <1>0, <2>2 DEF TypeOK
  <2> QED
    BY <1>3, <2>1, <2>2
<1>12. TypeOK'
  BY <1>0, <1>2, <1>4, <1>5, <1>7, <1>9, <1>11 DEF TypeOK, Phase
<1>13. TablesBounded'
  <2>1. "crowded" \notin incidents' => Len(storage_devs) < MaxStorage
    BY <1>0, <1>4, <1>5 DEF RoomForTested
  <2>2. "crowded" \notin incidents' => Len(devices') <= MaxDevices
    <3>1. CASE devices' = Append(devices, d) /\ Len(devices) < MaxDevices
      BY <1>8, <1>10, <3>1
    <3>2. CASE devices' = devices
      BY <1>0, <1>4, <3>2 DEF TablesBounded
    <3> QED
      BY <1>3, <3>1, <3>2
  <2> QED
    BY <1>7, <1>10, <2>1, <2>2 DEF TablesBounded
<1>14. RoomForTested'
  <2> SUFFICES ASSUME "crowded" \notin incidents', NEW u \in Caller,
                      pc'[u] \in {"insert", "store"}
               PROVE  /\ pc[u] = "insert" /\ u # t
                      /\ Len(devices') < MaxDevices
    BY <1>2 DEF RoomForTested
  <2>1. u # t /\ pc[u] \in {"insert", "store"} /\ pc[u] # "store"
    BY <1>3, <1>2
  <2>2. UNCHANGED devices
    BY <1>3, <2>1
  <2> QED
    BY <1>0, <1>4, <2>1, <2>2 DEF RoomForTested
<1>15. TablesAgree'
  <2> SUFFICES ASSUME Once'
               PROVE  /\ \A e \in Dev : Contains(devices', e) \/ Contains(storage_devs', e)
                                           => e \notin freed'
                      /\ IsInjective(devices') /\ IsInjective(storage_devs')
                      /\ "table_full" \notin incidents' =>
                            Range(storage_devs') \subseteq Range(devices')
    BY DEF TablesAgree, Once
  <2>0. Once /\ TablesAgree
    BY <1>0, <1>4
  <2>1. /\ \A e : e \in Range(devices) <=> Contains(devices, e)
        /\ \A e : e \in Range(devices') <=> Contains(devices', e)
        /\ \A e : e \in Range(storage_devs) <=> Contains(storage_devs, e)
        /\ \A e : e \in Range(storage_devs') <=> Contains(storage_devs', e)
    BY <1>0, <1>7, <1>9, RangeContains DEF TypeOK
  <2>2. "table_full" \notin incidents' => Range(storage_devs') \subseteq Range(devices')
    BY <1>4, <1>7, <1>9, <2>0, <2>1 DEF TablesAgree, Once
  <2>3. \A e \in Dev : Contains(devices', e) \/ Contains(storage_devs', e) => e \notin freed'
    BY <1>5, <1>6, <1>7, <1>9, <2>0 DEF TablesAgree, Once
  <2> QED
    BY <1>7, <1>9, <2>0, <2>2, <2>3
<1>16. PhasesFit'
  BY <1>0, <1>2, <1>4, <1>5 DEF PhasesFit
<1>17. StillPlugged'
  BY <1>0, <1>2, <1>4, <1>5, <1>9 DEF StillPlugged
<1>18. ConsoleChosen'
  BY <1>0, <1>2, <1>4, <1>5, <1>6, <1>9 DEF ConsoleChosen
<1>19. Once' => OneAtATime' /\ NotYetOrNoMore'
  <2> SUFFICES ASSUME Once' PROVE OneAtATime' /\ NotYetOrNoMore'
    OBVIOUS
  <2>0. Once /\ OneAtATime /\ NotYetOrNoMore
    BY <1>0, <1>4
  <2>1. OneAtATime'
    BY <1>2, <1>5, <2>0 DEF OneAtATime, Entering, Registering, Leaving
  <2>2. NotYetOrNoMore'
    BY <1>2, <1>5, <1>6, <1>7, <1>9, <2>0 DEF NotYetOrNoMore, Entering, Leaving, Registering
  <2> QED
    BY <2>1, <2>2
<1>20. Once' => EventsTell'
  <2> SUFFICES ASSUME Once', NEW e \in Dev, e \in Storage \/ "outrun" \notin incidents'
               PROVE  announced'[e] = IF Present(e)' THEN 1 ELSE 0
    BY DEF EventsTell
  <2>0. Once /\ OneAtATime /\ NotYetOrNoMore /\ EventsTell
    BY <1>0, <1>4
  <2>1. announced[e] = IF Present(e) THEN 1 ELSE 0
    BY <1>4, <2>0 DEF EventsTell
  <2>2. CASE e = d
    <3>1. ~Present(d)
      BY <1>d, <1>5, <1>6, <2>0 DEF Present, Leaving
    <3>2. \A u \in Caller : dev'[u] = d => pc'[u] \notin {"added", "removed"}
      BY <1>2, <1>6, <2>0 DEF Registering, Leaving
    <3>3. Present(d)' <=> Contains(devices', d)
      BY <3>2 DEF Present
    <3>4. announced[d] = 0 /\ ~Contains(devices, d)
      BY <1>6, <2>0, <2>1, <2>2, <3>1
    <3>5. CASE devices' = Append(devices, d) /\ announced'[d] = announced[d] + 1
      <4>1. Contains(devices', d)
        BY <1>8, <3>5
      <4> QED
        BY <2>2, <3>3, <3>4, <3>5, <4>1
    <3>6. CASE devices' = devices /\ announced'[d] = announced[d]
      BY <2>2, <3>3, <3>4, <3>6
    <3> QED
      BY <1>11, <3>5, <3>6
  <2>3. CASE e # d
    <3>1. Contains(devices', e) <=> Contains(devices, e)
      BY <1>9, <2>3
    <3>2. Present(e)' <=> Present(e)
      BY <1>2, <1>5, <3>1 DEF Present
    <3> QED
      BY <1>11, <2>1, <2>3, <3>2
  <2> QED
    BY <2>2, <2>3
<1> QED
  BY <1>12, <1>13, <1>14, <1>15, <1>16, <1>17, <1>18, <1>19, <1>20 DEF DevicesInductive, RegistryInvariant

\* What Pulled records when d leaves the registry.
LEMMA PulledRecords ==
    ASSUME NEW d
    PROVE  /\ Pulled(d) \subseteq {"outrun", "unplugged"}
           /\ "outrun" \notin Pulled(d) =>
                \A u \in Caller : dev[u] = d => pc[u] # "added"
           /\ "unplugged" \notin Pulled(d) =>
                /\ active_console # d
                /\ \A u \in Caller : dev[u] = d =>
                        pc[u] \notin {"added", "first?", "activate", "found", "switch"}
<1> DEFINE P(what) == CASE what = "outrun" -> \E u \in Caller : dev[u] = d /\ pc[u] = "added"
                        [] what = "unplugged" ->
                             \/ active_console = d
                             \/ \E u \in Caller : dev[u] = d /\
                                    pc[u] \in {"added", "first?", "activate", "found", "switch"}
<1>1. P("outrun") = \E u \in Caller : dev[u] = d /\ pc[u] = "added"
  OBVIOUS
<1>2. P("unplugged") = (\/ active_console = d
                        \/ \E u \in Caller : dev[u] = d /\
                                pc[u] \in {"added", "first?", "activate", "found", "switch"})
  OBVIOUS
<1>3. Pulled(d) = {what \in {"outrun", "unplugged"} : P(what)}
  BY DEF Pulled
<1> HIDE DEF P
<1> QED
  BY <1>1, <1>2, <1>3

\* A device that leaves the registry is on nobody's way into it, has left its
\* storage table, and is left by this caller alone, as long as none is
\* registered that is in use.
LEMMA UnregisterStep ==
    ASSUME DevicesInductive, NEW t \in Caller, NEW d \in Dev, Unregister(t, d),
           \/ pc[t] = "idle" /\ d \notin Storage
           \/ pc[t] = "base" /\ dev[t] = d
    PROVE  DevicesInductive'
<1> USE DeviceAssumption
<1>0. /\ TypeOK /\ TablesBounded /\ TablesAgree /\ PhasesFit /\ RoomForTested
      /\ StillPlugged /\ ConsoleChosen
      /\ Once => OneAtATime /\ NotYetOrNoMore /\ EventsTell
  BY DEF DevicesInductive, RegistryInvariant
<1>1. /\ Contains(devices, d)
      /\ devices' = Without(devices, d)
      /\ incidents' = incidents \cup Pulled(d)
      /\ Begin(t, d, "removed")
      /\ UNCHANGED <<storage_devs, active_console, slot, freed, registered, announced>>
  BY DEF Unregister
<1>2. /\ pc' \in [Caller -> Phase] /\ dev' \in [Caller -> Dev \cup {NULL}]
      /\ \A u \in Caller : u # t => pc'[u] = pc[u] /\ dev'[u] = dev[u]
      /\ pc'[t] = "removed" /\ dev'[t] = d
  <2>1. "removed" \in Phase /\ d \in Dev \cup {NULL}
    BY DEF Phase
  <2> QED
    BY <1>0, <1>1, <2>1, Begun
<1>3. UNCHANGED <<storage_devs, active_console, slot, freed, registered, announced>>
  BY <1>1
<1>4. /\ incidents \subseteq incidents' /\ incidents' \subseteq incidents \cup {"outrun", "unplugged"}
      /\ "outrun" \notin incidents' => \A u \in Caller : dev[u] = d => pc[u] # "added"
      /\ "unplugged" \notin incidents' =>
            /\ active_console # d
            /\ \A u \in Caller : dev[u] = d =>
                    pc[u] \notin {"added", "first?", "activate", "found", "switch"}
  BY <1>1, PulledRecords
<1>5. /\ Once' => Once
      /\ Steady' => Steady /\ "unplugged" \notin incidents'
  BY <1>4 DEF Once, Steady
<1>6. /\ devices' \in Seq(Dev)
      /\ Len(devices') = Len(devices) - 1
      /\ \A e : Contains(devices', e) => Contains(devices, e)
      /\ \A e : Contains(devices, e) /\ e # d => Contains(devices', e)
      /\ Once => IsInjective(devices') /\ ~Contains(devices', d)
  BY <1>0, <1>1, WithoutTable DEF TypeOK, TablesAgree, Once
<1>7. Len(devices) \in Nat
  BY <1>0, LenProperties DEF TypeOK
<1>8. Contains(devices, d) /\ pc[t] \in {"idle", "base"}
  BY <1>1
<1>9. Once => ~Contains(storage_devs, d)
  <2>1. CASE pc[t] = "base" /\ dev[t] = d
    BY <1>0, <2>1 DEF NotYetOrNoMore, Leaving
  <2>2. CASE d \notin Storage
    <3>1. \A e : Contains(storage_devs, e) => e \in Storage
      BY <1>0, LenProperties, ElementOfSeq DEF Contains, TypeOK
    <3> QED
      BY <2>2, <3>1
  <2> QED
    BY <2>1, <2>2
<1>10. Once => \A u \in Caller : dev[u] = d /\ u # t =>
            pc[u] \notin Entering /\ pc[u] \notin Leaving
  <2> SUFFICES ASSUME Once, NEW u \in Caller, dev[u] = d, u # t
               PROVE  pc[u] \notin Entering /\ pc[u] \notin Leaving
    OBVIOUS
  <2>1. pc[u] \notin Entering /\ pc[u] \notin {"removed", "release"}
    BY <1>0, <1>8 DEF NotYetOrNoMore, Leaving
  <2>2. pc[u] # "base"
    <3>1. CASE pc[t] = "base" /\ dev[t] = d
      BY <1>0, <3>1 DEF OneAtATime, Leaving
    <3>2. CASE d \notin Storage
      BY <1>0, <3>2 DEF PhasesFit
    <3> QED
      BY <3>1, <3>2
  <2> QED
    BY <2>1, <2>2 DEF Leaving
<1>11. TypeOK'
  BY <1>0, <1>2, <1>3, <1>4, <1>6 DEF TypeOK, Phase
<1>12. TablesBounded' /\ RoomForTested'
  <2>1. \A u \in Caller : pc'[u] \in {"insert", "store"} => pc'[u] = pc[u]
    BY <1>2
  <2>2. Len(devices') <= Len(devices) /\ Len(devices') \in Nat
    BY <1>6, <1>7, LenProperties
  <2>3. TablesBounded'
    BY <1>0, <1>3, <1>4, <1>7, <2>2 DEF TablesBounded
  <2>4. RoomForTested'
    BY <1>0, <1>3, <1>4, <1>7, <2>1, <2>2 DEF RoomForTested
  <2> QED
    BY <2>3, <2>4
<1>13. TablesAgree'
  <2> SUFFICES ASSUME Once'
               PROVE  /\ \A e \in Dev : Contains(devices', e) \/ Contains(storage_devs', e)
                                           => e \notin freed'
                      /\ IsInjective(devices') /\ IsInjective(storage_devs')
                      /\ "table_full" \notin incidents' =>
                            Range(storage_devs') \subseteq Range(devices')
    BY DEF TablesAgree, Once
  <2>0. Once /\ TablesAgree
    BY <1>0, <1>5
  <2>1. /\ \A e : e \in Range(devices) <=> Contains(devices, e)
        /\ \A e : e \in Range(devices') <=> Contains(devices', e)
        /\ \A e : e \in Range(storage_devs) <=> Contains(storage_devs, e)
    BY <1>0, <1>6, RangeContains DEF TypeOK
  <2>2. "table_full" \notin incidents' => Range(storage_devs') \subseteq Range(devices')
    BY <1>3, <1>4, <1>6, <1>9, <2>0, <2>1 DEF TablesAgree, Once
  <2>3. \A e \in Dev : Contains(devices', e) \/ Contains(storage_devs', e) => e \notin freed'
    BY <1>3, <1>6, <2>0 DEF TablesAgree, Once
  <2>4. IsInjective(storage_devs')
    BY <1>3, <2>0 DEF TablesAgree, Once
  <2> QED
    BY <1>6, <2>0, <2>2, <2>3, <2>4
<1>14. PhasesFit'
  BY <1>0, <1>2, <1>3, <1>5 DEF PhasesFit
<1>15. StillPlugged'
  BY <1>0, <1>2, <1>3, <1>4, <1>5, <1>6 DEF StillPlugged
<1>16. ConsoleChosen'
  BY <1>0, <1>2, <1>3, <1>4, <1>5, <1>6, <1>8 DEF ConsoleChosen
<1>17. Once' => OneAtATime' /\ NotYetOrNoMore'
  <2> SUFFICES ASSUME Once' PROVE OneAtATime' /\ NotYetOrNoMore'
    OBVIOUS
  <2>0. Once /\ OneAtATime /\ NotYetOrNoMore
    BY <1>0, <1>5
  <2>1. OneAtATime'
    BY <1>2, <1>10, <2>0 DEF OneAtATime, Entering, Registering, Leaving
  <2>2. NotYetOrNoMore'
    BY <1>2, <1>3, <1>6, <1>9, <2>0 DEF NotYetOrNoMore, Entering, Leaving
  <2> QED
    BY <2>1, <2>2
<1>18. Once' => EventsTell'
  <2> SUFFICES ASSUME Once' PROVE EventsTell'
    OBVIOUS
  <2>1. ASSUME NEW e \in Dev, e \in Storage \/ "outrun" \notin incidents'
        PROVE  Present(e)' <=> Present(e)
    <3>1. CASE e = d
      <4>1. Present(d)'
        BY <1>2 DEF Present
      <4>2. \A u \in Caller : dev[u] = d => pc[u] # "added"
        BY <1>0, <1>4, <2>1, <3>1 DEF PhasesFit
      <4>3. Present(d)
        BY <1>8, <4>2 DEF Present
      <4> QED
        BY <3>1, <4>1, <4>3
    <3>2. CASE e # d
      <4>1. Contains(devices', e) <=> Contains(devices, e)
        BY <1>6, <3>2
      <4>2. dev[t] = e => pc[t] = "idle"
        BY <3>2
      <4>3. dev[t] # e
        BY <1>0, <4>2 DEF PhasesFit
      <4> QED
        BY <1>2, <3>2, <4>1, <4>3 DEF Present
    <3> QED
      BY <3>1, <3>2
  <2> QED
    BY <1>0, <1>3, <1>4, <1>5, <2>1, EventsKept
<1> QED
  BY <1>11, <1>12, <1>13, <1>14, <1>15, <1>16, <1>17, <1>18 DEF DevicesInductive, RegistryInvariant

\* device_unregister called for a device that is no storage device.
LEMMA DeviceUnregisterStep ==
    ASSUME DevicesInductive, NEW t \in Caller, NEW d \in Dev, DeviceUnregister(t, d)
    PROVE  DevicesInductive'
  BY UnregisterStep DEF DeviceUnregister

\* A storage device leaves its own table.
LEMMA StorageUnregisterStep ==
    ASSUME DevicesInductive, NEW t \in Caller, NEW d \in Dev, StorageUnregister(t, d)
    PROVE  DevicesInductive'
<1> USE DeviceAssumption
<1>0. /\ TypeOK /\ TablesBounded /\ TablesAgree /\ PhasesFit /\ RoomForTested
      /\ StillPlugged /\ ConsoleChosen
      /\ Once => OneAtATime /\ NotYetOrNoMore /\ EventsTell
  BY DEF DevicesInductive, RegistryInvariant
<1>1. /\ pc[t] = "idle" /\ d \in Storage
      /\ Contains(storage_devs, d)
      /\ storage_devs' = Without(storage_devs, d)
      /\ Begin(t, d, "base")
      /\ UNCHANGED <<devices, active_console, slot, freed, registered, announced, incidents>>
  BY DEF StorageUnregister
<1>2. /\ pc' \in [Caller -> Phase] /\ dev' \in [Caller -> Dev \cup {NULL}]
      /\ \A u \in Caller : u # t => pc'[u] = pc[u] /\ dev'[u] = dev[u]
      /\ pc'[t] = "base" /\ dev'[t] = d
  <2>1. "base" \in Phase /\ d \in Dev \cup {NULL}
    BY DEF Phase
  <2> QED
    BY <1>0, <1>1, <2>1, Begun
<1>3. UNCHANGED <<devices, active_console, slot, freed, registered, announced, incidents>>
  BY <1>1
<1>4. /\ storage_devs' \in Seq(Storage)
      /\ Len(storage_devs') = Len(storage_devs) - 1
      /\ \A e : Contains(storage_devs', e) => Contains(storage_devs, e)
      /\ \A e : Contains(storage_devs, e) /\ e # d => Contains(storage_devs', e)
      /\ Once => IsInjective(storage_devs') /\ ~Contains(storage_devs', d)
  BY <1>0, <1>1, WithoutTable DEF TypeOK, TablesAgree, Once
<1>5. Len(storage_devs) \in Nat /\ Len(storage_devs') \in Nat
  BY <1>0, <1>4, LenProperties DEF TypeOK
<1>6. pc[t] = "idle" /\ dev[t] = NULL /\ d \in Storage /\ d \notin Console
  BY <1>0, <1>1 DEF PhasesFit
<1>7. Once => \A u \in Caller : dev[u] = d => pc[u] \notin Entering /\ pc[u] \notin Leaving
  BY <1>0, <1>1 DEF NotYetOrNoMore
<1>8. TypeOK'
  BY <1>0, <1>2, <1>3, <1>4 DEF TypeOK, Phase
<1>9. TablesBounded' /\ RoomForTested'
  <2>1. \A u \in Caller : pc'[u] \in {"insert", "store"} => pc'[u] = pc[u]
    BY <1>2
  <2>2. Len(storage_devs') <= Len(storage_devs)
    BY <1>4, <1>5
  <2>3. TablesBounded'
    BY <1>0, <1>3, <1>5, <2>2 DEF TablesBounded
  <2>4. RoomForTested'
    BY <1>0, <1>3, <1>5, <2>1, <2>2 DEF RoomForTested
  <2> QED
    BY <2>3, <2>4
<1>10. TablesAgree'
  <2> SUFFICES ASSUME Once
               PROVE  /\ \A e \in Dev : Contains(devices', e) \/ Contains(storage_devs', e)
                                           => e \notin freed'
                      /\ IsInjective(devices') /\ IsInjective(storage_devs')
                      /\ "table_full" \notin incidents' =>
                            Range(storage_devs') \subseteq Range(devices')
    BY <1>3 DEF TablesAgree, Once
  <2>1. /\ \A e : e \in Range(storage_devs) <=> Contains(storage_devs, e)
        /\ \A e : e \in Range(storage_devs') <=> Contains(storage_devs', e)
    BY <1>0, <1>4, RangeContains DEF TypeOK
  <2> QED
    BY <1>0, <1>3, <1>4, <2>1 DEF TablesAgree, Once
<1>11. PhasesFit'
  BY <1>0, <1>2, <1>3, <1>6 DEF PhasesFit, Once, Steady
<1>12. StillPlugged'
  BY <1>0, <1>2, <1>3 DEF StillPlugged, Steady
<1>13. ConsoleChosen'
  BY <1>0, <1>2, <1>3, <1>6 DEF ConsoleChosen, Once, Steady
<1>14. Once' => OneAtATime' /\ NotYetOrNoMore'
  <2> SUFFICES ASSUME Once' PROVE OneAtATime' /\ NotYetOrNoMore'
    OBVIOUS
  <2>0. Once /\ OneAtATime /\ NotYetOrNoMore
    BY <1>0, <1>3 DEF Once
  <2>1. OneAtATime'
    BY <1>2, <1>7, <2>0 DEF OneAtATime, Entering, Registering, Leaving
  <2>2. NotYetOrNoMore'
    BY <1>2, <1>3, <1>4, <2>0 DEF NotYetOrNoMore, Entering, Leaving
  <2> QED
    BY <2>1, <2>2
<1>15. Once' => EventsTell'
  <2>1. \A e \in Dev : Present(e)' <=> Present(e)
    BY <1>2, <1>3, <1>6 DEF Present
  <2> QED
    BY <1>0, <1>3, <2>1, EventsKept DEF Once
<1> QED
  BY <1>8, <1>9, <1>10, <1>11, <1>12, <1>13, <1>14, <1>15 DEF DevicesInductive, RegistryInvariant

\* What remains true when a caller goes from one place to another and the
\* tables, the freed devices and the active console are the same.
LEMMA MoveStep ==
    ASSUME DevicesInductive, NEW t \in Caller, TypeOK',
           incidents \subseteq incidents',
           UNCHANGED <<devices, storage_devs, active_console, freed, announced>>,
           \A u \in Caller : u # t => pc'[u] = pc[u] /\ dev'[u] = dev[u],
           pc[t] \notin {"added", "removed"} \cup Entering,
           pc'[t] \in {"idle", "found", "activate"},
           pc'[t] = "activate" => pc[t] = "first?" /\ dev'[t] = dev[t],
           PhasesFit', StillPlugged', ConsoleChosen'
    PROVE  DevicesInductive'
<1> USE DeviceAssumption
<1>0. /\ TypeOK /\ TablesBounded /\ TablesAgree /\ PhasesFit /\ RoomForTested
      /\ StillPlugged /\ ConsoleChosen
      /\ Once => OneAtATime /\ NotYetOrNoMore /\ EventsTell
  BY DEF DevicesInductive, RegistryInvariant
<1>1. /\ UNCHANGED <<devices, storage_devs, freed, announced>>
      /\ pc[t] \notin {"added", "removed", "insert", "store"}
      /\ pc'[t] \in {"idle", "found", "activate"}
      /\ Once' => Once
  BY DEF Once, Entering
<1>2. TablesBounded' /\ TablesAgree'
  BY <1>0, <1>1, TablesKept
<1>3. RoomForTested'
  BY <1>0, <1>1 DEF RoomForTested
<1>4. Once' => OneAtATime' /\ NotYetOrNoMore'
  <2> SUFFICES ASSUME Once' PROVE OneAtATime' /\ NotYetOrNoMore'
    OBVIOUS
  <2>0. Once /\ OneAtATime /\ NotYetOrNoMore
    BY <1>0, <1>1
  <2>1. OneAtATime'
    BY <1>1, <2>0 DEF OneAtATime, Entering, Registering, Leaving
  <2>2. NotYetOrNoMore'
    BY <1>1, <2>0 DEF NotYetOrNoMore, Entering, Leaving
  <2> QED
    BY <2>1, <2>2
<1>5. Once' => EventsTell'
  <2>1. \A e \in Dev : Present(e)' <=> Present(e)
    BY <1>1 DEF Present
  <2> QED
    BY <1>0, <1>1, <2>1, EventsKept
<1> QED
  BY <1>2, <1>3, <1>4, <1>5 DEF DevicesInductive, RegistryInvariant

\* Then the registry, if it is there; otherwise the call is over.
LEMMA StorageUnregisterBaseStep ==
    ASSUME DevicesInductive, NEW t \in Caller, StorageUnregisterBase(t)
    PROVE  DevicesInductive'
<1> USE DeviceAssumption
<1>0. /\ TypeOK /\ TablesBounded /\ TablesAgree /\ PhasesFit /\ RoomForTested
      /\ StillPlugged /\ ConsoleChosen
      /\ Once => OneAtATime /\ NotYetOrNoMore /\ EventsTell
  BY DEF DevicesInductive, RegistryInvariant
<1>d. PICK d \in Dev : d = dev[t]
  BY <1>0 DEF StorageUnregisterBase, PhasesFit, TypeOK
<1>1. pc[t] = "base"
  BY DEF StorageUnregisterBase
<1>2. CASE Unregister(t, d)
  BY <1>d, <1>1, <1>2, UnregisterStep
<1>3. CASE /\ ~Contains(devices, d) /\ Go(t, "idle")
           /\ UNCHANGED <<tables, active_console, slot, freed, registered, announced, incidents>>
  <2>1. UNCHANGED <<devices, storage_devs, active_console, slot, freed, registered, announced,
                    incidents>>
    BY <1>3 DEF tables
  <2>2. /\ pc' \in [Caller -> Phase] /\ dev' \in [Caller -> Dev \cup {NULL}]
        /\ \A u \in Caller : u # t => pc'[u] = pc[u] /\ dev'[u] = dev[u]
        /\ pc'[t] = "idle" /\ dev'[t] = NULL
    <3>1. "idle" \in Phase
      BY DEF Phase
    <3> QED
      BY <1>0, <1>3, <3>1, Gone
  <2>3. TypeOK'
    BY <1>0, <2>1, <2>2 DEF TypeOK, Phase
  <2>4. PhasesFit' /\ StillPlugged' /\ ConsoleChosen'
    <3>1. PhasesFit'
      BY <1>0, <2>1, <2>2 DEF PhasesFit, Once, Steady
    <3>2. StillPlugged'
      BY <1>0, <2>1, <2>2 DEF StillPlugged, Steady
    <3>3. ConsoleChosen'
      BY <1>0, <1>1, <2>1, <2>2 DEF ConsoleChosen, Once, Steady
    <3> QED
      BY <3>1, <3>2, <3>3
  <2> QED
    BY <1>1, <2>1, <2>2, <2>3, <2>4, MoveStep DEF Entering
<1> QED
  BY <1>d, <1>2, <1>3 DEF StorageUnregisterBase

\* The event of a removal is the first one since the device was announced.
LEMMA UnregisterAnnounceStep ==
    ASSUME DevicesInductive, NEW t \in Caller, UnregisterAnnounce(t)
    PROVE  DevicesInductive'
<1> USE DeviceAssumption
<1>0. /\ TypeOK /\ TablesBounded /\ TablesAgree /\ PhasesFit /\ RoomForTested
      /\ StillPlugged /\ ConsoleChosen
      /\ Once => OneAtATime /\ NotYetOrNoMore /\ EventsTell
  BY DEF DevicesInductive, RegistryInvariant
<1>d. PICK d \in Dev : d = dev[t]
  BY <1>0 DEF UnregisterAnnounce, PhasesFit, TypeOK
<1>1. /\ pc[t] = "removed"
      /\ announced' = [announced EXCEPT ![d] = @ + (-1)]
      /\ Go(t, "release")
      /\ UNCHANGED <<devices, storage_devs, active_console, slot, freed, registered, incidents>>
  BY <1>d DEF UnregisterAnnounce, Announce, tables
<1>2. /\ pc' \in [Caller -> Phase] /\ dev' \in [Caller -> Dev \cup {NULL}]
      /\ \A u \in Caller : u # t => pc'[u] = pc[u] /\ dev'[u] = dev[u]
      /\ pc'[t] = "release" /\ dev'[t] = d
  <2>1. "release" \in Phase
    BY DEF Phase
  <2> QED
    BY <1>d, <1>0, <1>1, <2>1, Gone
<1>3. UNCHANGED <<devices, storage_devs, active_console, slot, freed, registered, incidents>>
  BY <1>1
<1>4. pc[t] = "removed"
  BY <1>1
<1>5. /\ announced' \in [Dev -> Int]
      /\ \A e \in Dev : e # d => announced'[e] = announced[e]
      /\ announced'[d] = announced[d] + (-1)
  BY <1>0, <1>1 DEF TypeOK
<1>6. TypeOK'
  BY <1>0, <1>2, <1>3, <1>5 DEF TypeOK, Phase
<1>7. TablesBounded' /\ TablesAgree'
  BY <1>0, <1>3, TablesKept
<1>8. PhasesFit'
  BY <1>d, <1>0, <1>2, <1>3 DEF PhasesFit, Once, Steady
<1>9. RoomForTested' /\ StillPlugged'
  BY <1>0, <1>2, <1>3 DEF RoomForTested, StillPlugged, Steady
<1>10. ConsoleChosen'
  BY <1>0, <1>2, <1>3, <1>4 DEF ConsoleChosen, Once, Steady
<1>11. Once' => OneAtATime' /\ NotYetOrNoMore'
  <2> SUFFICES ASSUME Once' PROVE OneAtATime' /\ NotYetOrNoMore'
    OBVIOUS
  <2>0. Once /\ OneAtATime /\ NotYetOrNoMore
    BY <1>0, <1>3 DEF Once
  <2>1. OneAtATime'
    BY <1>d, <1>2, <1>4, <2>0 DEF OneAtATime, Entering, Registering, Leaving
  <2>2. NotYetOrNoMore'
    BY <1>d, <1>2, <1>3, <1>4, <2>0 DEF NotYetOrNoMore, Entering, Leaving
  <2> QED
    BY <2>1, <2>2
<1>12. Once' => EventsTell'
  <2> SUFFICES ASSUME Once', NEW e \in Dev, e \in Storage \/ "outrun" \notin incidents
               PROVE  announced'[e] = IF Present(e)' THEN 1 ELSE 0
    BY <1>3 DEF EventsTell
  <2>0. Once /\ OneAtATime /\ NotYetOrNoMore
    BY <1>0, <1>3 DEF Once
  <2>1. announced[e] = IF Present(e) THEN 1 ELSE 0
    BY <1>0, <2>0 DEF EventsTell
  <2>2. CASE e = d
    <3>1. Present(d)
      BY <1>d, <1>4 DEF Present
    <3>2. ~Contains(devices, d)
      BY <1>d, <1>4, <2>0 DEF NotYetOrNoMore, Leaving
    <3>3. \A u \in Caller : dev'[u] = d => pc'[u] # "removed"
      BY <1>d, <1>2, <1>4, <2>0 DEF OneAtATime, Leaving
    <3>4. ~Present(d)'
      BY <1>3, <3>2, <3>3 DEF Present
    <3> QED
      BY <1>5, <2>1, <2>2, <3>1, <3>4
  <2>3. CASE e # d
    <3>1. Present(e)' <=> Present(e)
      BY <1>d, <1>2, <1>3, <1>4, <2>3 DEF Present
    <3> QED
      BY <1>5, <2>1, <2>3, <3>1
  <2> QED
    BY <2>2, <2>3
<1> QED
  BY <1>6, <1>7, <1>8, <1>9, <1>10, <1>11, <1>12 DEF DevicesInductive, RegistryInvariant

\* The device that is freed stands in no table and is on nobody's way into one.
LEMMA UnregisterReleaseStep ==
    ASSUME DevicesInductive, NEW t \in Caller, UnregisterRelease(t)
    PROVE  DevicesInductive'
<1> USE DeviceAssumption
<1>0. /\ TypeOK /\ TablesBounded /\ TablesAgree /\ PhasesFit /\ RoomForTested
      /\ StillPlugged /\ ConsoleChosen
      /\ Once => OneAtATime /\ NotYetOrNoMore /\ EventsTell
  BY DEF DevicesInductive, RegistryInvariant
<1>d. PICK d \in Dev : d = dev[t]
  BY <1>0 DEF UnregisterRelease, PhasesFit, TypeOK
<1>1. /\ pc[t] = "release"
      /\ freed' = freed \cup ({d} \cap Allocated)
      /\ Go(t, "idle")
      /\ UNCHANGED <<devices, storage_devs, active_console, slot, registered, announced, incidents>>
  BY <1>d DEF UnregisterRelease, tables
<1>2. /\ pc' \in [Caller -> Phase] /\ dev' \in [Caller -> Dev \cup {NULL}]
      /\ \A u \in Caller : u # t => pc'[u] = pc[u] /\ dev'[u] = dev[u]
      /\ pc'[t] = "idle" /\ dev'[t] = NULL
  <2>1. "idle" \in Phase
    BY DEF Phase
  <2> QED
    BY <1>d, <1>0, <1>1, <2>1, Gone
<1>3. UNCHANGED <<devices, storage_devs, active_console, slot, registered, announced, incidents>>
  BY <1>1
<1>4. pc[t] = "release" /\ freed' \subseteq freed \cup {d} /\ freed' \subseteq freed \cup Allocated
  BY <1>1
<1>5. Once => /\ ~Contains(devices, d) /\ ~Contains(storage_devs, d)
              /\ \A u \in Caller : dev[u] = d => pc[u] \notin Entering
  <2>1. pc[t] \in Leaving /\ pc[t] \notin Entering /\ pc[t] \in Leaving \ {"base"}
    BY <1>4 DEF Entering, Leaving
  <2> QED
    BY <1>d, <1>0, <2>1 DEF OneAtATime, NotYetOrNoMore
<1>6. TypeOK'
  BY <1>0, <1>2, <1>3, <1>4 DEF TypeOK, Phase
<1>7. TablesBounded' /\ TablesAgree'
  BY <1>0, <1>3, <1>4, <1>5 DEF TablesBounded, TablesAgree, Once
<1>8. PhasesFit'
  BY <1>0, <1>2, <1>3 DEF PhasesFit, Once, Steady
<1>9. RoomForTested' /\ StillPlugged'
  BY <1>0, <1>2, <1>3 DEF RoomForTested, StillPlugged, Steady
<1>10. ConsoleChosen'
  BY <1>0, <1>2, <1>3, <1>4 DEF ConsoleChosen, Once, Steady
<1>11. Once' => OneAtATime' /\ NotYetOrNoMore'
  <2> SUFFICES ASSUME Once' PROVE OneAtATime' /\ NotYetOrNoMore'
    OBVIOUS
  <2>0. Once /\ OneAtATime /\ NotYetOrNoMore
    BY <1>0, <1>3 DEF Once
  <2>1. OneAtATime'
    BY <1>2, <2>0 DEF OneAtATime, Entering, Registering, Leaving
  <2>2. NotYetOrNoMore'
    BY <1>2, <1>3, <1>4, <1>5, <2>0 DEF NotYetOrNoMore, Entering, Leaving
  <2> QED
    BY <2>1, <2>2
<1>12. Once' => EventsTell'
  <2>1. \A e \in Dev : Present(e)' <=> Present(e)
    BY <1>2, <1>3, <1>4 DEF Present
  <2> QED
    BY <1>0, <1>3, <2>1, EventsKept DEF Once
<1> QED
  BY <1>6, <1>7, <1>8, <1>9, <1>10, <1>11, <1>12 DEF DevicesInductive, RegistryInvariant

\* A second caller that sees no active console is what two_first records.
LEMMA ConsoleTestStep ==
    ASSUME DevicesInductive, NEW t \in Caller, ConsoleTest(t)
    PROVE  DevicesInductive'
<1> USE DeviceAssumption
<1>0. /\ TypeOK /\ TablesBounded /\ TablesAgree /\ PhasesFit /\ RoomForTested
      /\ StillPlugged /\ ConsoleChosen
      /\ Once => OneAtATime /\ NotYetOrNoMore /\ EventsTell
  BY DEF DevicesInductive, RegistryInvariant
<1>d. PICK d \in Dev : d = dev[t]
  BY <1>0 DEF ConsoleTest, PhasesFit, TypeOK
<1>1. /\ pc[t] = "first?"
      /\ \/ active_console = NULL /\ Go(t, "activate")
         \/ active_console # NULL /\ Go(t, "idle")
      /\ Incident(active_console = NULL /\ Others(t, "activate"), "two_first")
      /\ UNCHANGED <<devices, storage_devs, active_console, slot, freed, registered, announced>>
  BY DEF ConsoleTest, tables
<1>2. /\ pc' \in [Caller -> Phase] /\ dev' \in [Caller -> Dev \cup {NULL}]
      /\ \A u \in Caller : u # t => pc'[u] = pc[u] /\ dev'[u] = dev[u]
      /\ \/ active_console = NULL /\ pc'[t] = "activate" /\ dev'[t] = d
         \/ active_console # NULL /\ pc'[t] = "idle" /\ dev'[t] = NULL
  <2>1. "activate" \in Phase /\ "idle" \in Phase
    BY DEF Phase
  <2>2. CASE active_console = NULL /\ Go(t, "activate")
    BY <1>d, <1>0, <2>1, <2>2, Gone
  <2>3. CASE active_console # NULL /\ Go(t, "idle")
    BY <1>0, <2>1, <2>3, Gone
  <2> QED
    BY <1>1, <2>2, <2>3
<1>3. /\ incidents \subseteq incidents' /\ incidents' \subseteq incidents \cup {"two_first"}
      /\ "two_first" \notin incidents' =>
            active_console # NULL \/ \A u \in Caller \ {t} : pc[u] # "activate"
      /\ Once' => Once
      /\ Steady' => Steady
  BY <1>1, Recorded DEF Others, Once, Steady
<1>4. UNCHANGED <<devices, storage_devs, active_console, slot, freed, registered, announced>>
  BY <1>1
<1>5. pc[t] = "first?" /\ d \in Console
  BY <1>d, <1>0, <1>1 DEF PhasesFit
<1>6. TypeOK'
  BY <1>0, <1>2, <1>3, <1>4 DEF TypeOK, Phase
<1>7. PhasesFit'
  BY <1>0, <1>2, <1>3, <1>4, <1>5 DEF PhasesFit
<1>8. StillPlugged'
  BY <1>d, <1>0, <1>2, <1>3, <1>4, <1>5 DEF StillPlugged
<1>9. ConsoleChosen'
  <2>1. Once' /\ Steady' /\ active_console' # NULL => active_console' \in Console
    BY <1>0, <1>3, <1>4 DEF ConsoleChosen
  <2>2. ASSUME active_console' = NULL, NEW e \in Console, Contains(devices', e)
        PROVE  \E u \in Caller : dev'[u] = e /\ pc'[u] \in {"added", "first?", "activate"}
    <3>1. PICK u \in Caller : dev[u] = e /\ pc[u] \in {"added", "first?", "activate"}
      BY <1>0, <1>4, <2>2 DEF ConsoleChosen
    <3> QED
      BY <1>d, <1>2, <1>4, <2>2, <3>1
  <2>3. ASSUME "two_first" \notin incidents', NEW u \in Caller, pc'[u] = "activate"
        PROVE  active_console' = NULL /\ \A v \in Caller \ {u} : pc'[v] # "activate"
    BY <1>0, <1>2, <1>3, <1>4, <2>3 DEF ConsoleChosen
  <2> QED
    BY <2>1, <2>2, <2>3 DEF ConsoleChosen
<1> QED
  BY <1>d, <1>2, <1>3, <1>4, <1>5, <1>6, <1>7, <1>8, <1>9, MoveStep DEF Entering

\* What remains true when a caller makes its device the active console.
LEMMA ActivateStep ==
    ASSUME DevicesInductive, NEW t \in Caller, NEW d \in Dev, d = dev[t],
           pc[t] \in {"activate", "switch"},
           active_console' = d, Go(t, "idle"),
           incidents \subseteq incidents', incidents' \subseteq incidents \cup {"two_first"},
           "two_first" \notin incidents' => \A u \in Caller \ {t} : pc[u] # "activate",
           UNCHANGED <<devices, storage_devs, slot, freed, registered, announced>>
    PROVE  DevicesInductive'
<1> USE DeviceAssumption
<1>0. /\ TypeOK /\ TablesBounded /\ TablesAgree /\ PhasesFit /\ RoomForTested
      /\ StillPlugged /\ ConsoleChosen
      /\ Once => OneAtATime /\ NotYetOrNoMore /\ EventsTell
  BY DEF DevicesInductive, RegistryInvariant
<1>1. /\ pc' \in [Caller -> Phase] /\ dev' \in [Caller -> Dev \cup {NULL}]
      /\ \A u \in Caller : u # t => pc'[u] = pc[u] /\ dev'[u] = dev[u]
      /\ pc'[t] = "idle" /\ dev'[t] = NULL
  <2>1. "idle" \in Phase
    BY DEF Phase
  <2> QED
    BY <1>0, <2>1, Gone
<1>2. (Once' => Once) /\ (Steady' => Steady) /\ d # NULL
  BY DEF Once, Steady
<1>3. /\ Steady => Contains(devices, d)
      /\ Once /\ Steady => d \in Console
  BY <1>0 DEF StillPlugged, PhasesFit
<1>4. TypeOK'
  BY <1>0, <1>1 DEF TypeOK, Phase
<1>5. TablesBounded' /\ TablesAgree'
  BY <1>0, TablesKept
<1>6. PhasesFit' /\ RoomForTested'
  BY <1>0, <1>1, <1>2 DEF PhasesFit, RoomForTested
<1>7. StillPlugged'
  BY <1>0, <1>1, <1>2, <1>3 DEF StillPlugged
<1>8. ConsoleChosen'
  <2>1. "two_first" \notin incidents' => \A u \in Caller : pc'[u] # "activate"
    BY <1>1
  <2>2. Once' /\ Steady' => active_console' \in Console
    BY <1>2, <1>3
  <2> QED
    BY <1>2, <2>1, <2>2 DEF ConsoleChosen
<1>9. Once' => OneAtATime' /\ NotYetOrNoMore'
  <2> SUFFICES ASSUME Once' PROVE OneAtATime' /\ NotYetOrNoMore'
    OBVIOUS
  <2>0. Once /\ OneAtATime /\ NotYetOrNoMore
    BY <1>0, <1>2
  <2>1. OneAtATime'
    BY <1>1, <2>0 DEF OneAtATime, Entering, Registering, Leaving
  <2>2. NotYetOrNoMore'
    BY <1>1, <2>0 DEF NotYetOrNoMore, Entering, Leaving
  <2> QED
    BY <2>1, <2>2
<1>10. Once' => EventsTell'
  <2>1. \A e \in Dev : Present(e)' <=> Present(e)
    BY <1>1 DEF Present
  <2> QED
    BY <1>0, <1>2, <2>1, EventsKept
<1> QED
  BY <1>4, <1>5, <1>6, <1>7, <1>8, <1>9, <1>10 DEF DevicesInductive, RegistryInvariant

\* The console that becomes active was not unplugged, unless that is recorded.
LEMMA ConsoleActivateStep ==
    ASSUME DevicesInductive, NEW t \in Caller, ConsoleActivate(t)
    PROVE  DevicesInductive'
<1> USE DeviceAssumption
<1>0. /\ TypeOK /\ TablesBounded /\ TablesAgree /\ PhasesFit /\ RoomForTested
      /\ StillPlugged /\ ConsoleChosen
      /\ Once => OneAtATime /\ NotYetOrNoMore /\ EventsTell
  BY DEF DevicesInductive, RegistryInvariant
<1>d. PICK d \in Dev : d = dev[t]
  BY <1>0 DEF ConsoleActivate, PhasesFit, TypeOK
<1>1. /\ pc[t] = "activate" /\ active_console' = d /\ Go(t, "idle")
      /\ UNCHANGED <<devices, storage_devs, slot, freed, registered, announced, incidents>>
  BY <1>d DEF ConsoleActivate, tables
<1>2. "two_first" \notin incidents' => \A u \in Caller \ {t} : pc[u] # "activate"
  BY <1>0, <1>1 DEF ConsoleChosen
<1> QED
  BY <1>d, <1>1, <1>2, ActivateStep

\* It may come between the test and the store of a registration; that is
\* recorded as two_first.
LEMMA SetActiveStep ==
    ASSUME DevicesInductive, NEW t \in Caller, SetActive(t)
    PROVE  DevicesInductive'
<1> USE DeviceAssumption
<1>0. /\ TypeOK /\ TablesBounded /\ TablesAgree /\ PhasesFit /\ RoomForTested
      /\ StillPlugged /\ ConsoleChosen
      /\ Once => OneAtATime /\ NotYetOrNoMore /\ EventsTell
  BY DEF DevicesInductive, RegistryInvariant
<1>d. PICK d \in Dev : d = dev[t]
  BY <1>0 DEF SetActive, PhasesFit, TypeOK
<1>1. /\ pc[t] = "switch" /\ active_console' = d /\ Go(t, "idle")
      /\ UNCHANGED <<devices, storage_devs, slot, freed, registered, announced>>
      /\ Incident(Others(t, "activate"), "two_first")
  BY <1>d DEF SetActive, tables
<1>2. /\ incidents \subseteq incidents' /\ incidents' \subseteq incidents \cup {"two_first"}
      /\ "two_first" \notin incidents' => \A u \in Caller \ {t} : pc[u] # "activate"
  BY <1>1, Recorded DEF Others
<1> QED
  BY <1>d, <1>1, <1>2, ActivateStep

\* console_set_active has found a device in the registry.
LEMMA DeviceGetByNameStep ==
    ASSUME DevicesInductive, NEW t \in Caller, NEW d \in Dev, DeviceGetByName(t, d)
    PROVE  DevicesInductive'
<1> USE DeviceAssumption
<1>0. /\ TypeOK /\ TablesBounded /\ TablesAgree /\ PhasesFit /\ RoomForTested
      /\ StillPlugged /\ ConsoleChosen
      /\ Once => OneAtATime /\ NotYetOrNoMore /\ EventsTell
  BY DEF DevicesInductive, RegistryInvariant
<1>1. /\ pc[t] = "idle" /\ Contains(devices, d) /\ Begin(t, d, "found")
      /\ slot' = [slot EXCEPT ![t] = Place(devices, d)]
      /\ UNCHANGED <<devices, storage_devs, active_console, freed, registered, announced, incidents>>
  BY DEF DeviceGetByName, tables
<1>2. /\ pc' \in [Caller -> Phase] /\ dev' \in [Caller -> Dev \cup {NULL}]
      /\ \A u \in Caller : u # t => pc'[u] = pc[u] /\ dev'[u] = dev[u]
      /\ pc'[t] = "found" /\ dev'[t] = d
  <2>1. "found" \in Phase /\ d \in Dev \cup {NULL}
    BY DEF Phase
  <2> QED
    BY <1>0, <1>1, <2>1, Begun
<1>3. slot' \in [Caller -> Nat] /\ slot'[t] # 0 /\ \A u \in Caller : u # t => slot'[u] = slot[u]
  <2>1. Place(devices, d) \in 1 .. Len(devices)
    BY <1>0, <1>1, PlaceFound DEF TypeOK
  <2>2. Place(devices, d) \in Nat /\ Place(devices, d) # 0
    BY <1>0, <2>1, LenProperties DEF TypeOK
  <2> QED
    BY <1>0, <1>1, <2>2 DEF TypeOK
<1>4. /\ UNCHANGED <<devices, storage_devs, active_console, freed, registered, announced, incidents>>
      /\ pc[t] = "idle" /\ Contains(devices, d)
  BY <1>1
<1>5. TypeOK'
  BY <1>0, <1>2, <1>3, <1>4 DEF TypeOK, Phase
<1>6. PhasesFit'
  BY <1>0, <1>2, <1>3, <1>4 DEF PhasesFit, Once, Steady
<1>7. StillPlugged'
  BY <1>0, <1>2, <1>4 DEF StillPlugged, Steady
<1>8. ConsoleChosen'
  BY <1>0, <1>2, <1>4 DEF ConsoleChosen, Once, Steady
<1> QED
  BY <1>2, <1>4, <1>5, <1>6, <1>7, <1>8, MoveStep DEF Entering

\* What it reads there afterwards is that device, unless the table has moved.
LEMMA SetActiveFindStep ==
    ASSUME DevicesInductive, NEW t \in Caller, SetActiveFind(t)
    PROVE  DevicesInductive'
<1> USE DeviceAssumption
<1>0. /\ TypeOK /\ TablesBounded /\ TablesAgree /\ PhasesFit /\ RoomForTested
      /\ StillPlugged /\ ConsoleChosen
      /\ Once => OneAtATime /\ NotYetOrNoMore /\ EventsTell
  BY DEF DevicesInductive, RegistryInvariant
<1>1. PICK d \in Returned(t) :
          /\ Incident(d # dev[t], "shifted")
          /\ \/ d \in Console \cup freed /\ Begin(t, d, "switch")
             \/ d \notin Console /\ Begin(t, NULL, "idle")
  BY DEF SetActiveFind
<1>2. /\ pc[t] = "found"
      /\ slot' = [slot EXCEPT ![t] = 0]
      /\ UNCHANGED <<devices, storage_devs, active_console, freed, registered, announced>>
  BY DEF SetActiveFind, tables
<1>3. d \in Dev
  <2>1. CASE slot[t] <= Len(devices)
    <3>1. slot[t] \in Nat /\ slot[t] # 0 /\ devices \in Seq(Dev)
      BY <1>0, <1>2 DEF TypeOK, PhasesFit
    <3>2. devices[slot[t]] \in Dev
      BY <2>1, <3>1, EntryThere
    <3> QED
      BY <1>1, <2>1, <3>2 DEF Returned
  <2>2. CASE ~(slot[t] <= Len(devices))
    BY <1>1, <2>2 DEF Returned
  <2> QED
    BY <2>1, <2>2
<1>4. /\ pc' \in [Caller -> Phase] /\ dev' \in [Caller -> Dev \cup {NULL}]
      /\ \A u \in Caller : u # t => pc'[u] = pc[u] /\ dev'[u] = dev[u]
      /\ \/ d \in Console \cup freed /\ pc'[t] = "switch" /\ dev'[t] = d
         \/ pc'[t] = "idle" /\ dev'[t] = NULL
  <2>1. "switch" \in Phase /\ "idle" \in Phase /\ d \in Dev \cup {NULL} /\ NULL \in Dev \cup {NULL}
    BY <1>3 DEF Phase
  <2>2. CASE d \in Console \cup freed /\ Begin(t, d, "switch")
    BY <1>0, <2>1, <2>2, Begun
  <2>3. CASE Begin(t, NULL, "idle")
    BY <1>0, <2>1, <2>3, Begun
  <2> QED
    BY <1>1, <2>2, <2>3
<1>5. /\ incidents \subseteq incidents' /\ incidents' \subseteq incidents \cup {"shifted"}
      /\ "shifted" \notin incidents' => d = dev[t]
      /\ Once' => Once
  BY <1>1, Recorded
<1>6. Steady' => Steady /\ d = dev[t]
  BY <1>5 DEF Steady
<1>7. slot' \in [Caller -> Nat] /\ \A u \in Caller : u # t => slot'[u] = slot[u]
  BY <1>0, <1>2 DEF TypeOK
<1>8. /\ UNCHANGED <<devices, storage_devs, active_console, freed, registered, announced>>
      /\ pc[t] = "found"
  BY <1>2
<1>9. Steady' => Contains(devices, d)
  BY <1>0, <1>6, <1>8 DEF StillPlugged
<1>10. Once' /\ Steady' /\ pc'[t] = "switch" => d \in Console
  <2>1. Once' /\ Steady' => d \notin freed
    BY <1>0, <1>3, <1>5, <1>9 DEF TablesAgree, Once
  <2> QED
    BY <1>4, <2>1
<1>11. TypeOK'
  BY <1>0, <1>4, <1>5, <1>7, <1>8 DEF TypeOK, Phase
<1>12. TablesBounded' /\ TablesAgree'
  BY <1>0, <1>5, <1>8, TablesKept
<1>13. PhasesFit' /\ RoomForTested'
  <2>1. PhasesFit'
    BY <1>0, <1>3, <1>4, <1>5, <1>6, <1>7, <1>10 DEF PhasesFit
  <2>2. RoomForTested'
    BY <1>0, <1>4, <1>5, <1>8 DEF RoomForTested
  <2> QED
    BY <2>1, <2>2
<1>14. StillPlugged'
  BY <1>0, <1>4, <1>5, <1>6, <1>8, <1>9 DEF StillPlugged
<1>15. ConsoleChosen'
  BY <1>0, <1>4, <1>5, <1>6, <1>8 DEF ConsoleChosen
<1>16. Once' => OneAtATime' /\ NotYetOrNoMore'
  <2> SUFFICES ASSUME Once' PROVE OneAtATime' /\ NotYetOrNoMore'
    OBVIOUS
  <2>0. Once /\ OneAtATime /\ NotYetOrNoMore
    BY <1>0, <1>5
  <2>1. OneAtATime'
    BY <1>4, <2>0 DEF OneAtATime, Entering, Registering, Leaving
  <2>2. NotYetOrNoMore'
    BY <1>4, <1>8, <2>0 DEF NotYetOrNoMore, Entering, Leaving
  <2> QED
    BY <2>1, <2>2
<1>17. Once' => EventsTell'
  <2>1. \A e \in Dev : Present(e)' <=> Present(e)
    BY <1>4, <1>8 DEF Present
  <2> QED
    BY <1>0, <1>5, <1>8, <2>1, EventsKept
<1> QED
  BY <1>11, <1>12, <1>13, <1>14, <1>15, <1>16, <1>17 DEF DevicesInductive, RegistryInvariant

-----------------------------------------------------------------------------

\* The tables start empty.
LEMMA DevicesInitInductive == Init => DevicesInductive
<1> SUFFICES ASSUME Init PROVE DevicesInductive
  OBVIOUS
<1> USE DeviceAssumption DEF Init
<1>1. <<>> \in Seq(Dev) /\ <<>> \in Seq(Storage)
  OBVIOUS
<1>2. Len(<<>>) = 0 /\ DOMAIN <<>> = {} /\ \A e : ~Contains(<<>>, e)
  BY DEF Contains
<1>3. TypeOK
  BY <1>1 DEF TypeOK
<1>4. TablesBounded /\ TablesAgree
  BY <1>2 DEF TablesBounded, TablesAgree, IsInjective, Range
<1>5. PhasesFit /\ OneAtATime /\ NotYetOrNoMore /\ RoomForTested
  BY <1>2 DEF PhasesFit, OneAtATime, NotYetOrNoMore, RoomForTested, Entering, Registering, Leaving
<1>6. EventsTell
  BY <1>2 DEF EventsTell, Present
<1>7. StillPlugged /\ ConsoleChosen
  BY <1>2 DEF StillPlugged, ConsoleChosen
<1> QED
  BY <1>3, <1>4, <1>5, <1>6, <1>7 DEF DevicesInductive, RegistryInvariant

\* In every reachable state.
LEMMA DevicesAlways == Spec => []DevicesInductive
<1>1. DevicesInductive /\ [Next]_vars => DevicesInductive'
  <2> SUFFICES ASSUME DevicesInductive, [Next]_vars PROVE DevicesInductive'
    OBVIOUS
  <2>1. CASE UNCHANGED vars
    <3>0. UNCHANGED <<devices, storage_devs, active_console, pc, dev, slot, freed, registered,
                      announced, incidents>>
      BY <2>1 DEF vars
    <3>1. TypeOK' /\ TablesBounded' /\ TablesAgree'
      BY <3>0 DEF DevicesInductive, RegistryInvariant, TypeOK, TablesBounded, TablesAgree
    <3>2. PhasesFit' /\ RoomForTested'
      BY <3>0 DEF DevicesInductive, PhasesFit, RoomForTested, Once, Steady
    <3>3. StillPlugged' /\ ConsoleChosen'
      BY <3>0 DEF DevicesInductive, StillPlugged, ConsoleChosen, Once, Steady
    <3>4. Once' => OneAtATime' /\ NotYetOrNoMore' /\ EventsTell'
      BY <3>0 DEF DevicesInductive, OneAtATime, NotYetOrNoMore, EventsTell, Present, Once
    <3> QED
      BY <3>1, <3>2, <3>3, <3>4 DEF DevicesInductive, RegistryInvariant
  <2> QED
    BY <2>1, RegisterTestStep, RegisterInsertStep, RegisterAnnounceStep, StorageInsertStep,
       DeviceUnregisterStep, StorageUnregisterStep, StorageUnregisterBaseStep,
       UnregisterAnnounceStep, UnregisterReleaseStep, ConsoleTestStep, ConsoleActivateStep,
       DeviceGetByNameStep, SetActiveFindStep, SetActiveStep DEF Next
<1> QED
  BY <1>1, DevicesInitInductive, PTL DEF Spec

\* Whatever is registered and unregistered by however many tasks, no table
\* outgrows its array unless two were past the test of its bound, and none
\* holds a freed device, or one twice, unless a device was registered while it
\* was in use.
THEOREM RegistryStaysExact == Spec => []RegistryInvariant
<1>1. DevicesInductive => RegistryInvariant
  BY DEF DevicesInductive
<1> QED
  BY <1>1, DevicesAlways, PTL

\* The events of a device alternate, over any number of registrations, unless
\* somebody outran one, or registered it while it was in use.
THEOREM EventsInOrder == Spec => []AddedThenRemoved
<1>1. DevicesInductive => AddedThenRemoved
  BY DEF DevicesInductive, EventsTell, AddedThenRemoved, Once
<1> QED
  BY <1>1, DevicesAlways, PTL

\* The active console is a registered console unless it was unplugged, the
\* table moved under console_set_active or a device was registered while in
\* use; and there is one when the registration of any has ended.
THEOREM ActiveConsoleStaysValid == Spec => []ActiveConsoleValid
<1>1. DevicesInductive => ActiveConsoleValid
  BY DeviceAssumption DEF DevicesInductive, StillPlugged, ConsoleChosen, ActiveConsoleValid,
     Once, Steady
<1> QED
  BY <1>1, DevicesAlways, PTL

\* Only console_set_active replaces an active console, unless two callers were
\* choosing the first one together.
THEOREM FirstConsoleKept == Spec => FirstConsoleStays
<1> DEFINE Stays == /\ active_console # NULL /\ active_console' # active_console
                    /\ "two_first" \notin incidents
                    => \E t \in Caller : pc[t] = "switch" /\ pc'[t] = "idle"
<1>1. DevicesInductive /\ [Next]_vars => [Stays]_vars
  <2> SUFFICES ASSUME DevicesInductive, Next, active_console # NULL,
                      active_console' # active_console, "two_first" \notin incidents
               PROVE  \E t \in Caller : pc[t] = "switch" /\ pc'[t] = "idle"
    OBVIOUS
  <2>1. PICK t \in Caller : ConsoleActivate(t) \/ SetActive(t)
    BY DEF Next, RegisterTest, DeviceUnregister, StorageUnregister, SetActiveFind, Unregister,
          RegisterInsert, RegisterAnnounce, StorageInsert, StorageUnregisterBase,
          UnregisterAnnounce, UnregisterRelease, ConsoleTest, DeviceGetByName
  <2>2. ~ConsoleActivate(t)
    BY DEF ConsoleActivate, DevicesInductive, ConsoleChosen
  <2>3. pc[t] = "switch" /\ pc'[t] = "idle"
    BY <2>1, <2>2 DEF SetActive, Go, Begin, DevicesInductive, RegistryInvariant, TypeOK
  <2> QED
    BY <2>3
<1> QED
  BY <1>1, DevicesAlways, PTL DEF Spec, FirstConsoleStays
=============================================================================
