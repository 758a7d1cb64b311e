------------------------- MODULE HeapPreemptProofs -------------------------
(***************************************************************************)
(* What HeapPreempt guarantees for any number of words, any width of them, *)
(* any sizes of requests and any number of callers whose accesses to the   *)
(* bitmap and the headers interleave.                                      *)
(***************************************************************************)
EXTENDS HeapPreempt, FiniteSetTheorems, WellFoundedInduction, TLAPS

Apart(a, b) == Extent(a) \cap Extent(b) = {}

\* The blocks that have an owner or are about to have one.
BlocksFit == \A b \in blocks : b.start + b.units <= NUM_UNITS
HeadersFit == \A u \in Units : u + header[u] <= NUM_UNITS

\* Where the locals of a call can be at each of its labels.
CallFits(k) ==
    /\ k.pc \in Searching =>
         /\ k.n \in Sizes /\ k.count < k.n
         /\ k.count > 0 => k.start + k.count <= k.i
         /\ k.pc = "word" => k.i % WORD = 0
         /\ k.pc = "bit" => k.i < NUM_UNITS
    /\ k.pc \in Setting \cup Clearing =>
         k.n \in Sizes /\ k.start <= k.i /\ k.start + k.n <= NUM_UNITS
    /\ k.pc \in Setting =>
         /\ k.i <= k.start + k.n
         /\ k.pc = "set_store" => k.i < k.start + k.n
    /\ k.pc = "clear_store" => k.i < NUM_UNITS

LocalsFit == \A c \in Caller : CallFits(call[c])

\* Blocks that are held or being marked never overlap: the model stops where
\* one is chosen that does.
OwnersApart ==
    ~corrupt =>
      /\ \A a, b \in blocks : a # b => Apart(a, b)
      /\ \A a \in blocks, c \in In(Setting) : Apart(a, BlockOf(c))
      /\ \A c, d \in In(Setting) : c # d => Apart(BlockOf(c), BlockOf(d))

\* A header that is still read is the one of the block being released.
ReleasesKnowSize ==
    ~corrupt /\ "reused" \notin torn =>
      /\ \A c \in In(Clearing) :
           /\ header[call[c].start] = call[c].n
           /\ call[c].i <= call[c].start + call[c].n
           /\ call[c].pc = "clear_store" => call[c].i < call[c].start + call[c].n
           /\ \A b \in blocks : b.start # call[c].start
      /\ \A c, d \in In(Clearing) : c # d => call[c].start # call[d].start

\* A block that is being released is nobody else's, and the units behind the
\* index are free.
ReleasesApart ==
    ~corrupt /\ torn \cap {"choice", "word", "reused"} = {} =>
      \A c \in In(Clearing) :
         /\ Unmarked(c) \cap bitmap = {}
         /\ \A b \in blocks : Apart(b, BlockOf(c))
         /\ \A d \in In(Setting) \cup In(Clearing) : c # d => Apart(BlockOf(d), BlockOf(c))

LatestIsOne == latest = {} \/ \E b \in SettledBlocks : latest = {b}

HeapInductive ==
    /\ HeapInvariant
    /\ BlocksFit /\ HeadersFit /\ LocalsFit /\ LatestIsOne
    /\ OwnersApart /\ ReleasesKnowSize /\ ReleasesApart

\* What a search that has seen no change knows: it has counted the free units
\* from its start on, and no earlier start would do.
SearchStart(c) == IF call[c].count = 0 THEN call[c].i ELSE call[c].start
Seen(c) == {j \in Visited : SearchStart(c) <= j /\ j < call[c].i}

SearchExact(c) ==
    /\ call[c].pc = "bit" => call[c].i \in Visited
    /\ call[c].count > 0 => call[c].start \in Visited
    /\ Seen(c) \cap bitmap = {}
    /\ Cardinality(Seen(c)) = call[c].count
    /\ \A s \in Starts(call[c].n) : SearchStart(c) <= s

SearchesExact == \A c \in In(Searching) : ~call[c].changed => SearchExact(c)

-----------------------------------------------------------------------------
(* Arithmetic of words. *)

LEMMA DivMod ==
    ASSUME NEW M \in Nat \ {0}, NEW a \in Nat
    PROVE  a \div M \in Nat /\ a = M * (a \div M) + (a % M) /\ a % M \in 0 .. (M - 1)
  OBVIOUS

\* Quotient and remainder are unique.
LEMMA DivModUnique ==
    ASSUME NEW M \in Nat \ {0}, NEW p \in Nat, NEW q \in Nat,
           NEW r \in 0 .. (M - 1), NEW s \in 0 .. (M - 1),
           M * p + r = M * q + s
    PROVE  p = q /\ r = s
<1>1. CASE p < q
  <2>1. M * (q - p) >= M
    BY <1>1
  <2>2. M * q = M * p + M * (q - p)
    OBVIOUS
  <2> QED
    BY <2>1, <2>2
<1>2. CASE q < p
  <2>1. M * (p - q) >= M
    BY <1>2
  <2>2. M * p = M * q + M * (p - q)
    OBVIOUS
  <2> QED
    BY <2>1, <2>2
<1> QED
  BY <1>1, <1>2

\* A unit lies in its word.
LEMMA UnitInWord ==
    ASSUME NEW M \in Nat \ {0}, NEW u \in Nat
    PROVE  (u \div M) * M <= u /\ u <= (u \div M + 1) * M - 1
<1>1. u \div M \in Nat /\ u = M * (u \div M) + (u % M) /\ u % M \in 0 .. (M - 1)
  BY DivMod
<1>2. (u \div M) * M = M * (u \div M) /\ (u \div M + 1) * M = M * (u \div M) + M
  BY <1>1
<1> QED
  BY <1>1, <1>2

\* What divides is a multiple.
LEMMA ModOfMultiple ==
    ASSUME NEW M \in Nat \ {0}, NEW q \in Nat
    PROVE  (M * q) % M = 0 /\ (M * q) \div M = q
<1>1. M * q \in Nat
  OBVIOUS
<1>2. /\ (M * q) \div M \in Nat /\ (M * q) % M \in 0 .. (M - 1)
      /\ M * q = M * ((M * q) \div M) + ((M * q) % M)
  BY <1>1, DivMod
<1>3. 0 \in 0 .. (M - 1) /\ M * q + 0 = M * q
  OBVIOUS
<1> QED
  BY <1>2, <1>3, DivModUnique

\* From the first unit of a word the next word is one word away, and the units
\* in between belong to the first.
LEMMA NextWord ==
    ASSUME NEW M \in Nat \ {0}, NEW B \in Nat, NEW i \in Nat, i % M = 0, i < M * B
    PROVE  /\ i + M <= M * B /\ (i + M) % M = 0
           /\ \A j \in i .. i + M - 1 : j \div M = i \div M
<1> DEFINE q == i \div M
<1>1. q \in Nat /\ i = M * q
  BY DivMod
<1> HIDE DEF q
<1>2. q + 1 <= B
  <2>1. SUFFICES ASSUME B <= q PROVE FALSE
    BY <1>1
  <2>2. M * q = M * B + M * (q - B) /\ M * (q - B) >= 0
    BY <1>1, <2>1
  <2> QED
    BY <1>1, <2>2
<1>3. M * (q + 1) = i + M /\ M * B = M * (q + 1) + M * (B - (q + 1)) /\ M * (B - (q + 1)) >= 0
  BY <1>1, <1>2
<1>4. i + M <= M * B /\ (i + M) % M = 0
  <2>1. i + M = M * (q + 1) /\ q + 1 \in Nat
    BY <1>1, <1>3
  <2>2. (M * (q + 1)) % M = 0
    BY <2>1, ModOfMultiple
  <2>3. M * B \in Nat
    OBVIOUS
  <2> QED
    BY <1>3, <2>1, <2>2, <2>3
<1>5. ASSUME NEW j \in i .. i + M - 1 PROVE j \div M = q
  <2>1. j \in Nat /\ j - i \in 0 .. (M - 1) /\ M * q + (j - i) = j
    BY <1>1
  <2>2. /\ j \div M \in Nat /\ j % M \in 0 .. (M - 1)
        /\ j = M * (j \div M) + (j % M)
    BY <2>1, DivMod
  <2> QED
    BY <1>1, <2>1, <2>2, DivModUnique
<1> QED
  BY <1>4, <1>5 DEF q

\* Within a word the next unit belongs to the same word, and is one.
LEMMA NextInWord ==
    ASSUME NEW M \in Nat \ {0}, NEW B \in Nat, NEW i \in Nat, i < M * B, (i + 1) % M # 0
    PROVE  i + 1 < M * B /\ (i + 1) \div M = i \div M
<1>1. i + 1 # M * B
  BY ModOfMultiple
<1>2. M * B \in Nat
  OBVIOUS
<1>3. /\ i \div M \in Nat /\ i % M \in 0 .. (M - 1) /\ i = M * (i \div M) + (i % M)
      /\ (i + 1) \div M \in Nat /\ (i + 1) % M \in 0 .. (M - 1)
      /\ i + 1 = M * ((i + 1) \div M) + ((i + 1) % M)
  BY DivMod
<1> DEFINE q == i \div M
           p == (i + 1) \div M
           r == (i + 1) % M
<1>4. p \in Nat /\ q \in Nat /\ r \in 1 .. (M - 1) /\ i % M \in 0 .. (M - 1)
      /\ M * p + (r - 1) = M * q + (i % M)
  BY <1>3
<1>5. r - 1 \in 0 .. (M - 1)
  BY <1>4
<1> HIDE DEF p, q, r
<1>6. p = q
  BY <1>4, <1>5, DivModUnique
<1> QED
  BY <1>1, <1>2, <1>6 DEF p, q

-----------------------------------------------------------------------------
(* What the parts say. *)

LEMMA Sized ==
    /\ NUM_UNITS \in Nat /\ NUM_UNITS >= 1 /\ Units = 0 .. NUM_UNITS - 1
    /\ \A n \in Sizes : n \in Nat /\ n >= 1
<1>1. WORD * BITMAP_WORDS \in Nat /\ WORD * BITMAP_WORDS >= 1
  BY HeapAssumption
<1> QED
  BY <1>1, HeapAssumption DEF NUM_UNITS, Units

LEMMA Typed ==
    ASSUME HeapInductive
    PROVE  /\ bitmap \subseteq Units /\ blocks \subseteq Block
           /\ header \in [Units -> Sizes \cup {0}]
           /\ call \in [Caller -> Call]
           /\ torn \subseteq Damage \cup {"between"}
           /\ \A c \in Caller :
                 /\ call[c].pc \in {"idle"} \cup Searching \cup Setting \cup Clearing
                 /\ call[c].n \in Sizes \cup {0} /\ call[c].n \in Nat
                 /\ call[c].i \in 0 .. NUM_UNITS /\ call[c].i \in Nat
                 /\ call[c].count \in Nat
                 /\ call[c].start \in Units /\ call[c].start \in Nat
                 /\ call[c].old \subseteq Units /\ call[c].changed \in BOOLEAN
                 /\ CallFits(call[c])
<1>1. /\ bitmap \subseteq Units /\ blocks \subseteq Block
      /\ header \in [Units -> Sizes \cup {0}]
      /\ call \in [Caller -> Call]
      /\ torn \subseteq Damage \cup {"between"}
      /\ \A c \in Caller : call[c] \in Call /\ CallFits(call[c])
  BY DEF HeapInductive, HeapInvariant, PreemptTypeOK, LocalsFit
<1> QED
  BY <1>1, Sized DEF Call

LEMMA InLabels ==
    ASSUME NEW c, NEW L
    PROVE  c \in In(L) <=> c \in Caller /\ call[c].pc \in L
  BY DEF In

\* The parts of the type invariant that follow from the others.
LEMMA TypedAfter ==
    ASSUME bitmap' \subseteq Units, blocks' \subseteq Block,
           header' \in [Units -> Sizes \cup {0}], call' \in [Caller -> Call],
           torn' \subseteq Damage \cup {"between"}, LocalsFit', LatestIsOne'
    PROVE  PreemptTypeOK'
<1>1. ASSUME NEW c \in In(Setting)' PROVE ToMark(c)' \subseteq Units
  <2>1. c \in Caller /\ call'[c] \in Call /\ CallFits(call'[c]) /\ call'[c].pc \in Setting
    BY DEF In, LocalsFit
  <2>2. /\ call'[c].i \in Nat /\ call'[c].start \in Nat /\ call'[c].n \in Nat
        /\ call'[c].start + call'[c].n <= NUM_UNITS
    BY <2>1, Sized DEF Call, CallFits
  <2> QED
    BY <2>2, Sized, SMTT(30) DEF ToMark
<1>2. ASSUME NEW c \in In(Clearing)' PROVE Unmarked(c)' \subseteq Units
  <2>1. c \in Caller /\ call'[c] \in Call
    BY DEF In
  <2>2. call'[c].i \in 0 .. NUM_UNITS /\ call'[c].start \in Units
    BY <2>1 DEF Call
  <2> QED
    BY <2>2, Sized DEF Unmarked
<1>3. SettledBitmap' \subseteq Units
  BY <1>1, <1>2 DEF SettledBitmap
<1>4. SettledBlocks' \subseteq Block
  <2>1. ASSUME NEW c \in In(Setting \cup Clearing)' PROVE BlockOf(c)' \in Block
    <3>1. c \in Caller /\ call'[c] \in Call /\ CallFits(call'[c])
          /\ call'[c].pc \in Setting \cup Clearing
      BY DEF In, LocalsFit
    <3>2. call'[c].n \in Sizes /\ call'[c].start \in Units
      BY <3>1 DEF Call, CallFits
    <3> QED
      BY <3>2 DEF BlockOf, Block
  <2> QED
    BY <2>1 DEF SettledBlocks
<1>5. latest' \subseteq SettledBlocks' /\ \A a, b \in latest' : a = b
  BY DEF LatestIsOne
<1> QED
  BY <1>3, <1>4, <1>5 DEF PreemptTypeOK, Whole!HeapTypeOK, Whole!Units, Whole!Block,
        Whole!NUM_UNITS, Units, Block, NUM_UNITS

\* The accounting of Heap, unit by unit.
LEMMA Exact ==
    Whole!ExactAccounting <=> SettledBitmap = UNION {Extent(b) : b \in SettledBlocks}
  BY DEF Whole!ExactAccounting, Whole!Extent, Extent

\* What is settled, member by member, before and after a step.
LEMMA SettledUnit ==
    /\ \A u : u \in SettledBitmap <=>
            \/ u \in bitmap
            \/ \E c \in In(Setting) : u \in ToMark(c)
            \/ \E c \in In(Clearing) : u \in Unmarked(c)
    /\ \A u : u \in SettledBitmap' <=>
            \/ u \in bitmap'
            \/ \E c \in In(Setting)' : u \in ToMark(c)'
            \/ \E c \in In(Clearing)' : u \in Unmarked(c)'
  BY DEF SettledBitmap

LEMMA SettledBlock ==
    /\ \A b : b \in SettledBlocks <=>
            \/ b \in blocks
            \/ \E c \in In(Setting) \cup In(Clearing) : b = BlockOf(c)
    /\ \A b : b \in SettledBlocks' <=>
            \/ b \in blocks'
            \/ \E c \in In(Setting)' \cup In(Clearing)' : b = BlockOf(c)'
<1>1. /\ In(Setting \cup Clearing) = In(Setting) \cup In(Clearing)
      /\ In(Setting \cup Clearing)' = In(Setting)' \cup In(Clearing)'
  BY DEF In
<1> QED
  BY <1>1 DEF SettledBlocks

\* A step of a search, a load of a word: what is settled stays.
LEMMA QuietKeeps ==
    ASSUME HeapInductive, UNCHANGED <<heapvars, header, torn, corrupt>>,
           call' \in [Caller -> Call], LocalsFit',
           In(Setting)' = In(Setting), In(Clearing)' = In(Clearing),
           \A c \in In(Setting) \cup In(Clearing) :
                /\ call'[c].n = call[c].n /\ call'[c].start = call[c].start
                /\ call'[c].i = call[c].i,
           \A c \in In(Clearing) :
                ~corrupt /\ "reused" \notin torn /\ call'[c].pc = "clear_store" =>
                    call[c].i < call[c].start + call[c].n
    PROVE  HeapInductive' /\ UNCHANGED Whole!heapvars
<1>2. /\ \A c \in In(Setting) : ToMark(c)' = ToMark(c)
      /\ \A c \in In(Clearing) : Unmarked(c)' = Unmarked(c)
      /\ \A c \in In(Setting) \cup In(Clearing) : BlockOf(c)' = BlockOf(c)
  BY DEF ToMark, Unmarked, BlockOf
<1>3. bitmap' = bitmap /\ blocks' = blocks /\ latest' = latest /\ header' = header
      /\ torn' = torn /\ corrupt' = corrupt
  BY DEF heapvars
<1>4. SettledBitmap' = SettledBitmap /\ SettledBlocks' = SettledBlocks
  <2>1. \A u : u \in SettledBitmap' <=> u \in SettledBitmap
    BY <1>2, <1>3, SettledUnit
  <2>2. \A b : b \in SettledBlocks' <=> b \in SettledBlocks
    BY <1>2, <1>3, SettledBlock
  <2> QED
    BY <2>1, <2>2
<1>5. LatestIsOne' /\ BlocksFit' /\ HeadersFit'
  BY <1>3, <1>4 DEF HeapInductive, LatestIsOne, BlocksFit, HeadersFit
<1>6. PreemptTypeOK'
  BY <1>3, <1>5, Typed, TypedAfter
<1>7. HeadersKept' /\ CorruptOnlyIfTorn'
  BY <1>3 DEF HeapInductive, HeapInvariant, HeadersKept, CorruptOnlyIfTorn
<1>8. BitsKept'
  BY <1>3, <1>4 DEF HeapInductive, HeapInvariant, BitsKept, Whole!ExactAccounting, Whole!Extent
<1>9. OwnersApart'
  BY <1>2, <1>3 DEF HeapInductive, OwnersApart
<1>10. ReleasesKnowSize'
  BY <1>3 DEF HeapInductive, ReleasesKnowSize
<1>11. ReleasesApart'
  <2>1. SUFFICES ASSUME ~corrupt, torn \cap {"choice", "word", "reused"} = {},
                        NEW c \in In(Clearing)
                 PROVE  /\ Unmarked(c)' \cap bitmap = {}
                        /\ \A b \in blocks : Apart(b, BlockOf(c)')
                        /\ \A d \in In(Setting) \cup In(Clearing) :
                                c # d => Apart(BlockOf(d)', BlockOf(c)')
    BY <1>3 DEF ReleasesApart
  <2> QED
    BY <1>2, <2>1 DEF HeapInductive, ReleasesApart
<1>12. HeapInductive'
  BY <1>5, <1>6, <1>7, <1>8, <1>9, <1>10, <1>11 DEF HeapInductive, HeapInvariant
<1>13. UNCHANGED Whole!heapvars
  BY <1>3, <1>4 DEF Whole!heapvars
<1> QED
  BY <1>12, <1>13

-----------------------------------------------------------------------------
(* Searches, and the loads of bit operations. *)

\* One call moves on.
LEMMA OneCall ==
    ASSUME HeapInductive, NEW c \in Caller, NEW k \in Call, CallFits(k),
           call' = [call EXCEPT ![c] = k]
    PROVE  /\ call' \in [Caller -> Call] /\ LocalsFit'
           /\ call'[c] = k /\ \A d \in Caller : d # c => call'[d] = call[d]
<1>1. call \in [Caller -> Call] /\ \A d \in Caller : CallFits(call[d])
  BY Typed
<1>2. call' \in [Caller -> Call] /\ call'[c] = k /\ \A d \in Caller : d # c => call'[d] = call[d]
  BY <1>1
<1>3. \A d \in Caller : CallFits(call'[d])
  BY <1>1, <1>2
<1> QED
  BY <1>2, <1>3 DEF LocalsFit

\* A search moves on, begins or gives up.
LEMMA SearchKeeps ==
    ASSUME HeapInductive, NEW c \in Caller, NEW k \in Call, CallFits(k),
           call' = [call EXCEPT ![c] = k],
           call[c].pc \in {"idle"} \cup Searching, k.pc \in {"idle"} \cup Searching,
           UNCHANGED <<heapvars, header, torn, corrupt>>
    PROVE  HeapInductive' /\ UNCHANGED Whole!heapvars
<1>1. /\ call' \in [Caller -> Call] /\ LocalsFit'
      /\ call'[c] = k /\ \A d \in Caller : d # c => call'[d] = call[d]
  BY OneCall
<1>2. In(Setting)' = In(Setting) /\ In(Clearing)' = In(Clearing)
      /\ c \notin In(Setting) \cup In(Clearing)
  BY <1>1 DEF In, Searching, Setting, Clearing
<1>3. \A d \in In(Setting) \cup In(Clearing) : d \in Caller /\ d # c
  BY <1>2 DEF In
<1>4. \A d \in In(Setting) \cup In(Clearing) : call'[d] = call[d]
  BY <1>1, <1>3
<1>5. \A d \in In(Clearing) :
        ~corrupt /\ "reused" \notin torn /\ call'[d].pc = "clear_store" =>
            call[d].i < call[d].start + call[d].n
  BY <1>4 DEF HeapInductive, ReleasesKnowSize
<1> QED
  BY <1>1, <1>2, <1>4, <1>5, QuietKeeps

\* The next turn of the loops.
LEMMA NextBitFits ==
    ASSUME NEW k \in Call, k.i < NUM_UNITS, k.n \in Sizes, k.count < k.n,
           k.count > 0 => k.start + k.count <= k.i + 1
    PROVE  /\ NextBit(k) \in Call /\ CallFits(NextBit(k)) /\ NextBit(k).pc \in Searching
           /\ NextBit(k).i = k.i + 1 /\ NextBit(k).n = k.n /\ NextBit(k).count = k.count
           /\ NextBit(k).start = k.start /\ NextBit(k).changed = k.changed
           /\ NextBit(k).pc = "bit" => (k.i + 1) \div WORD = k.i \div WORD
<1>1. k.i \in Nat /\ k.i + 1 \in 0 .. NUM_UNITS
  BY Sized DEF Call
<1>2. (k.i + 1) % WORD # 0 => k.i + 1 < NUM_UNITS /\ (k.i + 1) \div WORD = k.i \div WORD
  BY <1>1, HeapAssumption, NextInWord DEF NUM_UNITS
<1>3. /\ NextBit(k) \in Call
      /\ NextBit(k).i = k.i + 1 /\ NextBit(k).n = k.n /\ NextBit(k).count = k.count
      /\ NextBit(k).start = k.start /\ NextBit(k).changed = k.changed
      /\ NextBit(k).pc = IF (k.i + 1) % WORD = 0 THEN "word" ELSE "bit"
  BY <1>1 DEF NextBit, Call, Searching
<1>4. CallFits(NextBit(k))
  BY <1>2, <1>3 DEF CallFits, Searching, Setting, Clearing
<1> QED
  BY <1>2, <1>3, <1>4 DEF Searching

LEMMA AllocKeeps ==
    ASSUME HeapInductive, NEW c \in Caller, NEW n \in Sizes, Alloc(c, n)
    PROVE  HeapInductive' /\ UNCHANGED Whole!heapvars
<1> DEFINE k == [Quiet EXCEPT !.pc = "word", !.n = n]
<1>1. 0 % WORD = 0
  BY HeapAssumption, ModOfMultiple
<1>2. /\ k.pc = "word" /\ k.n = n /\ k.i = 0 /\ k.count = 0
      /\ k \in Call
  <2>1. Quiet \in Call /\ Quiet.i = 0 /\ Quiet.count = 0
    BY Sized DEF Quiet, Call
  <2> QED
    BY <2>1 DEF Call, Searching
<1>3. CallFits(k)
  BY <1>1, <1>2, Sized DEF CallFits, Searching, Setting, Clearing
<1>4. call[c].pc = "idle" /\ call' = [call EXCEPT ![c] = k]
      /\ UNCHANGED <<heapvars, header, torn, corrupt>>
  BY DEF Alloc
<1> HIDE DEF k
<1> QED
  BY <1>2, <1>3, <1>4, SearchKeeps DEF Searching

LEMMA SkipWordKeeps ==
    ASSUME HeapInductive, NEW c \in Caller, SkipWord(c)
    PROVE  HeapInductive' /\ UNCHANGED Whole!heapvars
<1> DEFINE k == [call[c] EXCEPT !.i = @ + WORD]
<1>1. /\ call[c].pc = "word" /\ call[c].i < NUM_UNITS
      /\ call' = [call EXCEPT ![c] = k]
      /\ UNCHANGED <<heapvars, header, torn, corrupt>>
  BY DEF SkipWord, At
<1>2. call[c] \in Call /\ CallFits(call[c]) /\ call[c].i \in Nat
  BY Typed
<1>3. call[c].i % WORD = 0 /\ call[c].i < WORD * BITMAP_WORDS
  BY <1>1, <1>2 DEF CallFits, Searching, NUM_UNITS
<1>4. call[c].i + WORD <= NUM_UNITS /\ (call[c].i + WORD) % WORD = 0
  BY <1>2, <1>3, HeapAssumption, NextWord DEF NUM_UNITS
<1>5. /\ k \in Call /\ k.pc = "word" /\ k.i = call[c].i + WORD
      /\ k.n = call[c].n /\ k.count = call[c].count /\ k.start = call[c].start
  <2>1. call[c].i + WORD \in 0 .. NUM_UNITS
    BY <1>2, <1>4, Sized, HeapAssumption
  <2> QED
    BY <1>1, <1>2, <2>1 DEF Call
<1>6. call[c].count \in Nat /\ call[c].start \in Nat
  BY Typed
<1>7. CallFits(k)
  BY <1>1, <1>2, <1>4, <1>5, <1>6, HeapAssumption DEF CallFits, Searching, Setting, Clearing
<1> HIDE DEF k
<1> QED
  BY <1>1, <1>5, <1>7, SearchKeeps DEF Searching

LEMMA EnterWordKeeps ==
    ASSUME HeapInductive, NEW c \in Caller, EnterWord(c)
    PROVE  HeapInductive' /\ UNCHANGED Whole!heapvars
<1> DEFINE k == [call[c] EXCEPT !.pc = "bit"]
<1>1. /\ call[c].pc = "word" /\ call[c].i < NUM_UNITS
      /\ call' = [call EXCEPT ![c] = k]
      /\ UNCHANGED <<heapvars, header, torn, corrupt>>
  BY DEF EnterWord, At
<1>2. call[c] \in Call /\ CallFits(call[c])
  BY Typed
<1>3. /\ k \in Call /\ k.pc = "bit" /\ k.i = call[c].i
      /\ k.n = call[c].n /\ k.count = call[c].count /\ k.start = call[c].start
  BY <1>1, <1>2 DEF Call, Searching
<1>4. CallFits(k)
  BY <1>1, <1>2, <1>3 DEF CallFits, Searching, Setting, Clearing
<1> HIDE DEF k
<1> QED
  BY <1>1, <1>3, <1>4, SearchKeeps DEF Searching

\* A search that ends without a result is as if it had not begun.
LEMMA GiveUpKeeps ==
    ASSUME HeapInductive, NEW c \in Caller, GiveUp(c)
    PROVE  HeapInductive' /\ UNCHANGED Whole!heapvars
<1>1. Quiet \in Call /\ Quiet.pc = "idle"
  BY Sized DEF Quiet, Call
<1>2. CallFits(Quiet)
  BY <1>1 DEF CallFits, Searching, Setting, Clearing
<1>3. /\ call[c].pc = "word" /\ call' = [call EXCEPT ![c] = Quiet]
      /\ UNCHANGED <<heapvars, header, torn, corrupt>>
  BY DEF GiveUp, At
<1> QED
  BY <1>1, <1>2, <1>3, SearchKeeps DEF Searching

LEMMA UsedBitKeeps ==
    ASSUME HeapInductive, NEW c \in Caller, UsedBit(c)
    PROVE  HeapInductive' /\ UNCHANGED Whole!heapvars
<1> DEFINE k == [call[c] EXCEPT !.count = 0]
<1>1. /\ call[c].pc = "bit" /\ call' = [call EXCEPT ![c] = NextBit(k)]
      /\ UNCHANGED <<heapvars, header, torn, corrupt>>
  BY DEF UsedBit, At
<1>2. call[c] \in Call /\ CallFits(call[c])
  BY Typed
<1>3. k \in Call /\ k.i = call[c].i /\ k.n = call[c].n /\ k.count = 0
  BY <1>2 DEF Call
<1>4. k.i < NUM_UNITS /\ k.n \in Sizes /\ k.count < k.n
  BY <1>1, <1>2, <1>3, Sized DEF CallFits, Searching
<1> HIDE DEF k
<1>5. NextBit(k) \in Call /\ CallFits(NextBit(k)) /\ NextBit(k).pc \in Searching
  BY <1>3, <1>4, NextBitFits
<1> QED
  BY <1>1, <1>5, SearchKeeps DEF Searching

\* The locals after a free unit.
LEMMA CountedFits ==
    ASSUME HeapInductive, NEW c \in Caller, call[c].pc = "bit"
    PROVE  /\ Counted(c) \in Call /\ Counted(c).i = call[c].i /\ Counted(c).n = call[c].n
           /\ Counted(c).count = call[c].count + 1 /\ Counted(c).changed = call[c].changed
           /\ Counted(c).start = IF call[c].count = 0 THEN call[c].i ELSE call[c].start
           /\ Counted(c).start + Counted(c).count <= call[c].i + 1
           /\ call[c].i < NUM_UNITS /\ call[c].n \in Sizes /\ call[c].i \in Units
<1>1. /\ call[c] \in Call /\ CallFits(call[c]) /\ call[c].count \in Nat
      /\ call[c].i \in Nat /\ call[c].start \in Nat
  BY Typed
<1>2. /\ call[c].i < NUM_UNITS /\ call[c].n \in Sizes
      /\ call[c].count > 0 => call[c].start + call[c].count <= call[c].i
  BY <1>1 DEF CallFits, Searching
<1>3. call[c].i \in Units /\ call[c].count + 1 \in Nat
  BY <1>1, <1>2, Sized
<1>4. /\ Counted(c) \in Call /\ Counted(c).i = call[c].i /\ Counted(c).n = call[c].n
      /\ Counted(c).count = call[c].count + 1 /\ Counted(c).changed = call[c].changed
      /\ Counted(c).start = IF call[c].count = 0 THEN call[c].i ELSE call[c].start
  BY <1>1, <1>3 DEF Counted, Call
<1>5. Counted(c).start + Counted(c).count <= call[c].i + 1
  <2>1. CASE call[c].count = 0
    BY <1>1, <1>4, <2>1
  <2>2. CASE call[c].count # 0
    BY <1>1, <1>2, <1>4, <2>2
  <2> QED
    BY <2>1, <2>2
<1> QED
  BY <1>2, <1>3, <1>4, <1>5

LEMMA FreeBitKeeps ==
    ASSUME HeapInductive, NEW c \in Caller, FreeBit(c)
    PROVE  HeapInductive' /\ UNCHANGED Whole!heapvars
<1>1. /\ call[c].pc = "bit" /\ Counted(c).count < call[c].n
      /\ call' = [call EXCEPT ![c] = NextBit(Counted(c))]
      /\ UNCHANGED <<heapvars, header, torn, corrupt>>
  BY DEF FreeBit, At
<1>2. NextBit(Counted(c)) \in Call /\ CallFits(NextBit(Counted(c)))
      /\ NextBit(Counted(c)).pc \in Searching
  BY <1>1, CountedFits, NextBitFits
<1> QED
  BY <1>1, <1>2, SearchKeeps DEF Searching

\* The load of a bit operation changes only what the caller will store.
LEMMA LoadKeeps ==
    ASSUME HeapInductive, NEW c \in Caller, SetLoad(c) \/ ClearLoad(c)
    PROVE  HeapInductive' /\ UNCHANGED Whole!heapvars
<1>1. PICK store \in {"set_store", "clear_store"} :
        /\ store = "set_store" =>
             call[c].pc = "set" /\ call[c].i < call[c].start + call[c].n
        /\ store = "clear_store" =>
             call[c].pc = "clear" /\ call[c].i - call[c].start < header[call[c].start]
        /\ call' = [call EXCEPT ![c].old = bitmap \cap WordOf(call[c].i), ![c].pc = store]
        /\ UNCHANGED <<heapvars, header, torn, corrupt>>
  BY DEF SetLoad, ClearLoad, LoadWord, At
<1> DEFINE k == [call[c] EXCEPT !.old = bitmap \cap WordOf(call[c].i), !.pc = store]
<1>2. /\ call[c] \in Call /\ CallFits(call[c]) /\ call \in [Caller -> Call]
      /\ call[c].i \in Nat /\ call[c].start \in Units /\ call[c].n \in Nat
      /\ bitmap \subseteq Units /\ header \in [Units -> Sizes \cup {0}]
  BY Typed
<1>3. call' = [call EXCEPT ![c] = k]
  BY <1>1, <1>2
<1>4. /\ k \in Call /\ k.pc = store /\ k.i = call[c].i
      /\ k.n = call[c].n /\ k.start = call[c].start
  BY <1>2 DEF Call, Setting, Clearing
<1> HIDE DEF k
<1>5. header[call[c].start] \in Nat
      /\ call[c].start + header[call[c].start] <= NUM_UNITS /\ call[c].start \in Nat
  BY <1>2, Sized DEF HeapInductive, HeadersFit
<1>6. CallFits(k)
  <2>1. CASE store = "set_store"
    BY <1>1, <1>2, <1>4, <2>1 DEF CallFits, Searching, Setting, Clearing
  <2>2. CASE store = "clear_store"
    <3>1. call[c].i < NUM_UNITS
      BY <1>1, <1>2, <1>5, <2>2, Sized
    <3> QED
      BY <1>1, <1>2, <1>4, <2>2, <3>1 DEF CallFits, Searching, Setting, Clearing
  <2> QED
    BY <2>1, <2>2
<1>7. /\ call' \in [Caller -> Call] /\ LocalsFit'
      /\ call'[c] = k /\ \A d \in Caller : d # c => call'[d] = call[d]
  BY <1>3, <1>4, <1>6, OneCall
<1>8. In(Setting)' = In(Setting) /\ In(Clearing)' = In(Clearing)
  BY <1>1, <1>4, <1>7 DEF In, Setting, Clearing
<1>9. \A d \in In(Setting) \cup In(Clearing) :
        /\ call'[d].n = call[d].n /\ call'[d].start = call[d].start
        /\ call'[d].i = call[d].i
  BY <1>4, <1>7 DEF In
<1>10. ASSUME NEW d \in In(Clearing), ~corrupt, "reused" \notin torn,
              call'[d].pc = "clear_store"
       PROVE  call[d].i < call[d].start + call[d].n
  <2>1. /\ header[call[d].start] = call[d].n
        /\ call[d].pc = "clear_store" => call[d].i < call[d].start + call[d].n
    BY <1>10 DEF HeapInductive, ReleasesKnowSize
  <2>2. CASE d = c
    <3>1. call[c].i - call[c].start < call[c].n
      BY <1>1, <1>4, <1>7, <1>10, <2>1, <2>2
    <3> QED
      BY <1>2, <1>5, <2>2, <3>1
  <2>3. CASE d # c
    BY <1>7, <1>10, <2>1, <2>3 DEF In
  <2> QED
    BY <2>2, <2>3
<1> QED
  BY <1>1, <1>7, <1>8, <1>9, <1>10, QuietKeeps

-----------------------------------------------------------------------------
(* The end of a search. *)

\* What a search that returns the block b and has looked as far as the unit
\* last does to the other blocks, by what becomes of the history variables.
LEMMA Chosen ==
    ASSUME HeapInductive, ~corrupt, NEW b \in Block, NEW last \in Nat, NEW changed,
           b.start + b.units <= last + 1
    PROVE  /\ ~Taken(b) =>
                /\ \A a \in blocks : Apart(a, b)
                /\ \A d \in In(Setting) : Apart(BlockOf(d), b)
           /\ /\ ~Taken(b) /\ torn \cap {"choice", "word", "reused"} = {}
              /\ "choice" \notin Incidents(b, last, changed)
              => /\ \A d \in In(Clearing) : Apart(BlockOf(d), b)
                 /\ Extent(b) \cap SettledBitmap = {}
           /\ Taken(b) /\ torn \cap Damage = {} =>
                \/ "crossed" \in Incidents(b, last, changed)
                \/ "choice" \in Incidents(b, last, changed)
           /\ Incidents(b, last, changed) \subseteq {"crossed", "choice", "between"}
<1> DEFINE crossed == last >= b.start + b.units
           counted == {u \in b.start .. last : crossed => ~FullWord(u \div WORD)}
           released == UNION {Extent(BlockOf(d)) : d \in In(Clearing)}
<1>1. /\ "crossed" \in Incidents(b, last, changed) <=> crossed
      /\ "choice" \in Incidents(b, last, changed) <=>
            counted \cap SettledBitmap # {} \/ Extent(b) \cap released # {}
      /\ Incidents(b, last, changed) \subseteq {"crossed", "choice", "between"}
  BY DEF Incidents
<1>2. b.start \in Nat /\ b.units \in Nat
  BY Sized DEF Block
<1>3. ~Taken(b) =>
        /\ \A a \in blocks : Apart(a, b)
        /\ \A d \in In(Setting) : Apart(BlockOf(d), b)
  BY DEF Taken, Apart
<1>4. torn \cap {"choice", "word", "reused"} = {} =>
        SettledBitmap = UNION {Extent(a) : a \in SettledBlocks}
  BY Exact DEF HeapInductive, HeapInvariant, BitsKept
<1>5. ASSUME ~Taken(b), torn \cap {"choice", "word", "reused"} = {},
             "choice" \notin Incidents(b, last, changed)
      PROVE  /\ \A d \in In(Clearing) : Apart(BlockOf(d), b)
             /\ Extent(b) \cap SettledBitmap = {}
  <2>1. \A d \in In(Clearing) : Apart(BlockOf(d), b)
    BY <1>1, <1>5 DEF Apart
  <2>2. \A a \in SettledBlocks : Apart(a, b)
    BY <1>3, <1>5, <2>1, SettledBlock
  <2> QED
    BY <1>4, <1>5, <2>1, <2>2 DEF Apart
<1>6. ASSUME Taken(b), torn \cap Damage = {}, ~crossed
      PROVE  counted \cap SettledBitmap # {}
  <2>1. counted = b.start .. last
    BY <1>6
  <2>2. counted = Extent(b)
    BY <1>2, <1>6, <2>1 DEF Extent
  <2>3. PICK a \in blocks \cup {BlockOf(d) : d \in In(Setting)} : Extent(a) \cap Extent(b) # {}
    BY <1>6 DEF Taken
  <2>4. a \in SettledBlocks
    BY <2>3, SettledBlock
  <2>5. Extent(a) \subseteq SettledBitmap
    BY <1>4, <1>6, <2>4 DEF Damage
  <2> QED
    BY <2>2, <2>3, <2>5
<1> HIDE DEF crossed, counted, released
<1> QED
  BY <1>1, <1>3, <1>5, <1>6

\* What a search returns is a block, and the caller is about to mark it.
LEMMA FoundEffect ==
    ASSUME HeapInductive, NEW c \in Caller, Found(c)
    PROVE  \E b \in Block :
              /\ b = [start |-> Counted(c).start, units |-> call[c].n]
              /\ b.start + b.units <= call[c].i + 1 /\ call[c].i + 1 <= NUM_UNITS
              /\ call[c].pc = "bit" /\ ~corrupt
              /\ call' \in [Caller -> Call] /\ LocalsFit'
              /\ \A d \in Caller : d # c => call'[d] = call[d]
              /\ c \notin In(Setting) \cup In(Clearing)
              /\ In(Setting)' = In(Setting) \cup {c} /\ In(Clearing)' = In(Clearing)
              /\ BlockOf(c)' = b /\ ToMark(c)' = Extent(b)
              /\ latest' = {b} /\ corrupt' = Taken(b)
              /\ torn' = torn \cup Incidents(b, call[c].i, call[c].changed)
              /\ UNCHANGED <<bitmap, blocks, header>>
<1> DEFINE b == [start |-> Counted(c).start, units |-> call[c].n]
           k == [Quiet EXCEPT !.pc = "set", !.n = call[c].n,
                              !.start = Counted(c).start, !.i = FirstMark(Counted(c))]
<1>1. /\ call[c].pc = "bit" /\ ~corrupt /\ Counted(c).count = call[c].n
      /\ call' = [call EXCEPT ![c] = k]
      /\ latest' = {b} /\ corrupt' = Taken(b)
      /\ torn' = torn \cup Incidents(b, call[c].i, call[c].changed)
      /\ UNCHANGED <<bitmap, blocks, header>>
  BY DEF Found, At
<1>2. /\ Counted(c) \in Call
      /\ Counted(c).start + call[c].n <= call[c].i + 1
      /\ call[c].i < NUM_UNITS /\ call[c].n \in Sizes /\ call[c].i \in Units
  BY <1>1, CountedFits
<1>3. Counted(c).start \in Units /\ Counted(c).start \in 0 .. NUM_UNITS
  BY <1>2, Sized DEF Call
<1>4. b \in Block /\ b.start = Counted(c).start /\ b.units = call[c].n
  BY <1>2, <1>3 DEF Block
<1>5. Quiet \in Call
  BY Sized DEF Quiet, Call
<1>6. /\ k \in Call /\ k.pc = "set" /\ k.n = call[c].n
      /\ k.start = Counted(c).start /\ k.i = Counted(c).start
  BY <1>2, <1>3, <1>5 DEF FirstMark, Call, Setting
<1> HIDE DEF b, k
<1>7. CallFits(k)
  BY <1>2, <1>3, <1>6, Sized DEF CallFits, Searching, Setting, Clearing
<1>8. /\ call' \in [Caller -> Call] /\ LocalsFit'
      /\ call'[c] = k /\ \A d \in Caller : d # c => call'[d] = call[d]
  BY <1>1, <1>6, <1>7, OneCall
<1>9. /\ c \notin In(Setting) \cup In(Clearing)
      /\ In(Setting)' = In(Setting) \cup {c} /\ In(Clearing)' = In(Clearing)
  BY <1>1, <1>6, <1>8 DEF In, Setting, Clearing
<1>10. BlockOf(c)' = b /\ ToMark(c)' = Extent(b)
  BY <1>4, <1>6, <1>8 DEF BlockOf, ToMark, Extent, b
<1>11. b.start + b.units <= call[c].i + 1 /\ call[c].i + 1 <= NUM_UNITS
  BY <1>2, <1>4, Sized
<1> QED
  BY <1>1, <1>4, <1>8, <1>9, <1>10, <1>11 DEF b

\* A found block is settled from now on, and nobody else's up to what the
\* history variables say.
LEMMA FoundKeeps ==
    ASSUME HeapInductive, NEW c \in Caller, Found(c)
    PROVE  /\ HeapInductive'
           /\ \A u : u \in SettledBitmap' <=> u \in SettledBitmap \/ u \in Extent(BlockOf(c)')
           /\ SettledBlocks' = SettledBlocks \cup {BlockOf(c)'}
<1>1. PICK b \in Block :
              /\ b.start + b.units <= call[c].i + 1 /\ call[c].i + 1 <= NUM_UNITS
              /\ call[c].pc = "bit" /\ ~corrupt
              /\ call' \in [Caller -> Call] /\ LocalsFit'
              /\ \A d \in Caller : d # c => call'[d] = call[d]
              /\ c \notin In(Setting) \cup In(Clearing)
              /\ In(Setting)' = In(Setting) \cup {c} /\ In(Clearing)' = In(Clearing)
              /\ BlockOf(c)' = b /\ ToMark(c)' = Extent(b)
              /\ latest' = {b} /\ corrupt' = Taken(b)
              /\ torn' = torn \cup Incidents(b, call[c].i, call[c].changed)
              /\ UNCHANGED <<bitmap, blocks, header>>
  BY FoundEffect
<1>2. \A d \in In(Setting) \cup In(Clearing) : d \in Caller /\ d # c /\ call'[d] = call[d]
  BY <1>1 DEF In
<1>3. /\ \A d \in In(Setting) : ToMark(d)' = ToMark(d)
      /\ \A d \in In(Clearing) : Unmarked(d)' = Unmarked(d)
      /\ \A d \in In(Setting) \cup In(Clearing) : BlockOf(d)' = BlockOf(d)
  BY <1>2 DEF ToMark, Unmarked, BlockOf
<1>4. \A u : u \in SettledBitmap' <=> u \in SettledBitmap \/ u \in Extent(b)
  BY <1>1, <1>3, SettledUnit
<1>5. SettledBlocks' = SettledBlocks \cup {b}
  <2>1. \A x : x \in SettledBlocks' <=> x \in SettledBlocks \/ x = b
    BY <1>1, <1>3, SettledBlock
  <2> QED
    BY <2>1
<1>6. call[c].i \in Nat
  BY Typed
<1>7. /\ ~Taken(b) =>
                /\ \A a \in blocks : Apart(a, b)
                /\ \A d \in In(Setting) : Apart(BlockOf(d), b)
      /\ /\ ~Taken(b) /\ torn \cap {"choice", "word", "reused"} = {}
         /\ "choice" \notin Incidents(b, call[c].i, call[c].changed)
         => /\ \A d \in In(Clearing) : Apart(BlockOf(d), b)
            /\ Extent(b) \cap SettledBitmap = {}
      /\ Taken(b) /\ torn \cap Damage = {} =>
                \/ "crossed" \in Incidents(b, call[c].i, call[c].changed)
                \/ "choice" \in Incidents(b, call[c].i, call[c].changed)
      /\ Incidents(b, call[c].i, call[c].changed) \subseteq {"crossed", "choice", "between"}
  BY <1>1, <1>6, Chosen
<1>8. torn \subseteq torn' /\ torn' \subseteq torn \cup {"crossed", "choice", "between"}
  BY <1>1, <1>7
<1>9. LatestIsOne' /\ BlocksFit' /\ HeadersFit'
  BY <1>1, <1>5 DEF HeapInductive, LatestIsOne, BlocksFit, HeadersFit
<1>10. PreemptTypeOK'
  <2>1. torn' \subseteq Damage \cup {"between"}
    BY <1>8, Typed DEF Damage
  <2>2. /\ bitmap' \subseteq Units /\ blocks' \subseteq Block
        /\ header' \in [Units -> Sizes \cup {0}]
    BY <1>1, Typed
  <2> QED
    BY <1>1, <1>9, <2>1, <2>2, TypedAfter
<1>11. HeadersKept'
  BY <1>1, <1>8 DEF HeapInductive, HeapInvariant, HeadersKept
<1>12. CorruptOnlyIfTorn'
  BY <1>1, <1>7 DEF CorruptOnlyIfTorn, Damage
<1>13. BitsKept'
  <2>1. SUFFICES ASSUME torn' \cap {"choice", "word", "reused"} = {}
                 PROVE  SettledBitmap' = UNION {Extent(a) : a \in SettledBlocks'}
    BY DEF BitsKept, Whole!ExactAccounting, Whole!Extent, Extent
  <2>2. SettledBitmap = UNION {Extent(a) : a \in SettledBlocks}
    BY <1>1, <1>8, <2>1, Exact DEF HeapInductive, HeapInvariant, BitsKept
  <2> QED
    BY <1>4, <1>5, <2>2
<1>14. OwnersApart'
  BY <1>1, <1>2, <1>3, <1>7 DEF HeapInductive, OwnersApart, Apart
<1>15. ReleasesKnowSize'
  BY <1>1, <1>2, <1>8 DEF HeapInductive, ReleasesKnowSize
<1>16. ReleasesApart'
  <2>1. SUFFICES ASSUME ~corrupt', torn' \cap {"choice", "word", "reused"} = {},
                        NEW d \in In(Clearing)
                 PROVE  /\ Unmarked(d)' \cap bitmap' = {}
                        /\ \A a \in blocks' : Apart(a, BlockOf(d)')
                        /\ \A e \in In(Setting)' \cup In(Clearing)' :
                                d # e => Apart(BlockOf(e)', BlockOf(d)')
    BY <1>1 DEF ReleasesApart
  <2>2. /\ Unmarked(d) \cap bitmap = {}
        /\ \A a \in blocks : Apart(a, BlockOf(d))
        /\ \A e \in In(Setting) \cup In(Clearing) : d # e => Apart(BlockOf(e), BlockOf(d))
    BY <1>1, <1>8, <2>1 DEF HeapInductive, ReleasesApart
  <2>3. Apart(b, BlockOf(d))
    BY <1>1, <1>7, <1>8, <2>1 DEF Apart
  <2>4. Unmarked(d)' = Unmarked(d) /\ BlockOf(d)' = BlockOf(d)
    BY <1>3, <2>1
  <2> QED
    BY <1>1, <1>3, <2>2, <2>3, <2>4
<1> QED
  BY <1>1, <1>4, <1>5, <1>9, <1>10, <1>11, <1>12, <1>13, <1>14, <1>15, <1>16
     DEF HeapInductive, HeapInvariant

-----------------------------------------------------------------------------
(* The stores of bit operations. *)

\* The store moves its caller on and makes the searches stale.
LEMMA StoreEffect ==
    ASSUME HeapInductive, NEW c \in Caller, SetStore(c) \/ ClearStore(c)
    PROVE  /\ call' \in [Caller -> Call] /\ LocalsFit'
           /\ In(Setting)' = In(Setting) /\ In(Clearing)' = In(Clearing)
           /\ \A d \in Caller : call'[d].n = call[d].n /\ call'[d].start = call[d].start
           /\ \A d \in Caller : d # c => call'[d].i = call[d].i /\ call'[d].pc = call[d].pc
           /\ call'[c].i = call[c].i + 1 /\ call'[c].pc \in {"set", "clear"}
           /\ call[c].i \in Units /\ call[c].start <= call[c].i
           /\ ~corrupt /\ UNCHANGED <<blocks, latest, header, corrupt>>
           /\ bitmap' \subseteq Units
           /\ torn' = IF bitmap \cap WordOf(call[c].i) # call[c].old
                      THEN torn \cup {"word"} ELSE torn
<1>1. PICK word \in SUBSET Units, next \in {"set", "clear"} :
        /\ call[c].pc = (IF next = "set" THEN "set_store" ELSE "clear_store")
        /\ ~corrupt
        /\ StoreWord(c, word, next)
  <2>1. /\ call[c].i \in 0 .. NUM_UNITS /\ call[c].start \in Nat /\ call[c].n \in Nat
        /\ call[c].old \subseteq Units /\ CallFits(call[c])
    BY Typed
  <2>2. CASE SetStore(c)
    <3>1. call[c].pc = "set_store" /\ ~corrupt
          /\ StoreWord(c, call[c].old \cup {call[c].i}, "set")
      BY <2>2 DEF SetStore, At
    <3>2. call[c].i \in Units
      BY <2>1, <3>1, Sized DEF CallFits, Setting, Searching, Clearing
    <3>3. call[c].old \cup {call[c].i} \in SUBSET Units
      BY <2>1, <3>2
    <3> QED
      BY <3>1, <3>3
  <2>3. CASE ClearStore(c)
    <3>1. call[c].pc = "clear_store" /\ ~corrupt
          /\ StoreWord(c, call[c].old \ {call[c].i}, "clear")
      BY <2>3 DEF ClearStore, At
    <3>2. call[c].old \ {call[c].i} \in SUBSET Units
      BY <2>1
    <3> QED
      BY <3>1, <3>2
  <2> QED
    BY <2>2, <2>3
<1> DEFINE k == [call[c] EXCEPT !.i = @ + 1, !.old = {}, !.pc = next]
<1>2. /\ call' = [d \in Caller |->
                    IF d = c THEN k ELSE [call[d] EXCEPT !.changed = @ \/ d \in In(Searching)]]
      /\ UNCHANGED <<blocks, latest, header, corrupt>>
      /\ bitmap' = (bitmap \ WordOf(call[c].i)) \cup word
      /\ torn' = IF bitmap \cap WordOf(call[c].i) # call[c].old
                 THEN torn \cup {"word"} ELSE torn
  BY <1>1 DEF StoreWord
<1>3. /\ call \in [Caller -> Call] /\ bitmap \subseteq Units
      /\ \A d \in Caller : call[d] \in Call /\ CallFits(call[d])
      /\ call[c].i \in Nat /\ call[c].start \in Nat /\ call[c].n \in Nat
  BY Typed
<1>4. /\ call[c].i < NUM_UNITS /\ call[c].n \in Sizes /\ call[c].start <= call[c].i
      /\ call[c].start + call[c].n <= NUM_UNITS
      /\ next = "set" => call[c].i < call[c].start + call[c].n
  BY <1>1, <1>3, Sized DEF CallFits, Setting, Searching, Clearing
<1>5. call[c].i \in Units /\ call[c].i + 1 \in 0 .. NUM_UNITS
  BY <1>3, <1>4, Sized
<1>6. /\ k \in Call /\ k.pc = next /\ k.i = call[c].i + 1
      /\ k.n = call[c].n /\ k.start = call[c].start
  <2>1. call[c] \in Call
    BY <1>3
  <2> QED
    BY <1>5, <2>1 DEF Call, Setting, Clearing
<1> HIDE DEF k
<1>7. CallFits(k)
  BY <1>3, <1>4, <1>6 DEF CallFits, Setting, Searching, Clearing
<1>8. ASSUME NEW d \in Caller, d # c
      PROVE  /\ call'[d] \in Call /\ CallFits(call'[d])
             /\ call'[d].n = call[d].n /\ call'[d].start = call[d].start
             /\ call'[d].i = call[d].i /\ call'[d].pc = call[d].pc
  <2>1. call'[d] = [call[d] EXCEPT !.changed = @ \/ d \in In(Searching)]
    BY <1>2, <1>8
  <2>2. call[d] \in Call /\ CallFits(call[d])
    BY <1>3
  <2>3. /\ call'[d] \in Call /\ call'[d].count = call[d].count
        /\ call'[d].n = call[d].n /\ call'[d].start = call[d].start
        /\ call'[d].i = call[d].i /\ call'[d].pc = call[d].pc
    BY <2>1, <2>2 DEF Call
  <2>4. CallFits(call'[d])
    BY <2>2, <2>3 DEF CallFits
  <2> QED
    BY <2>3, <2>4
<1>9. call'[c] = k
  BY <1>2
<1>10. call' \in [Caller -> Call]
  <2>1. \A d \in Caller : call'[d] \in Call
    BY <1>6, <1>8, <1>9
  <2>2. call' = [d \in Caller |-> call'[d]]
    BY <1>2
  <2> QED
    BY <2>1, <2>2
<1>11. LocalsFit'
  BY <1>7, <1>8, <1>9 DEF LocalsFit
<1>12. In(Setting)' = In(Setting) /\ In(Clearing)' = In(Clearing)
  BY <1>1, <1>6, <1>8, <1>9 DEF In, Setting, Clearing
<1>13. bitmap' \subseteq Units
  BY <1>2, <1>3
<1>14. \A d \in Caller : call'[d].n = call[d].n /\ call'[d].start = call[d].start
  BY <1>6, <1>8, <1>9
<1> QED
  BY <1>1, <1>2, <1>4, <1>5, <1>6, <1>8, <1>9, <1>10, <1>11, <1>12, <1>13, <1>14

\* A store that undoes no other one leaves what is settled as it was.
LEMMA StoreKeeps ==
    ASSUME HeapInductive, NEW c \in Caller, SetStore(c) \/ ClearStore(c),
           torn' \cap {"choice", "word", "reused"} = {} =>
             /\ SettledBitmap' = SettledBitmap
             /\ \A d \in In(Clearing) : Unmarked(d)' \cap bitmap' = {}
    PROVE  HeapInductive' /\ SettledBlocks' = SettledBlocks
<1>1. /\ call' \in [Caller -> Call] /\ LocalsFit'
      /\ In(Setting)' = In(Setting) /\ In(Clearing)' = In(Clearing)
      /\ \A d \in Caller : call'[d].n = call[d].n /\ call'[d].start = call[d].start
      /\ \A d \in Caller : d # c => call'[d].i = call[d].i /\ call'[d].pc = call[d].pc
      /\ call'[c].i = call[c].i + 1 /\ call'[c].pc \in {"set", "clear"}
      /\ bitmap' \subseteq Units
  BY StoreEffect
<1>2. ~corrupt /\ UNCHANGED <<blocks, latest, header, corrupt>>
  BY StoreEffect
<1>3. torn \subseteq torn' /\ torn' \subseteq torn \cup {"word"}
  BY StoreEffect
<1>4. \A d \in Caller : BlockOf(d)' = BlockOf(d)
  BY <1>1 DEF BlockOf
<1>5. SettledBlocks' = SettledBlocks
  <2>1. \A d \in In(Setting) \cup In(Clearing) : BlockOf(d)' = BlockOf(d)
    BY <1>4 DEF In
  <2>2. \A b : b \in SettledBlocks' <=> b \in SettledBlocks
    BY <1>1, <1>2, <2>1, SettledBlock
  <2> QED
    BY <2>2
<1>6. LatestIsOne' /\ BlocksFit' /\ HeadersFit'
  BY <1>2, <1>5 DEF HeapInductive, LatestIsOne, BlocksFit, HeadersFit
<1>7. PreemptTypeOK'
  <2>1. torn' \subseteq Damage \cup {"between"}
    BY <1>3, Typed DEF Damage
  <2>2. blocks' \subseteq Block /\ header' \in [Units -> Sizes \cup {0}]
    BY <1>2, Typed
  <2> QED
    BY <1>1, <1>6, <2>1, <2>2, TypedAfter
<1>8. HeadersKept' /\ CorruptOnlyIfTorn'
  BY <1>2, <1>3 DEF HeapInductive, HeapInvariant, HeadersKept, CorruptOnlyIfTorn
<1>9. BitsKept'
  <2>1. SUFFICES ASSUME torn' \cap {"choice", "word", "reused"} = {}
                 PROVE  SettledBitmap' = UNION {Extent(a) : a \in SettledBlocks'}
    BY DEF BitsKept, Whole!ExactAccounting, Whole!Extent, Extent
  <2>2. SettledBitmap = UNION {Extent(a) : a \in SettledBlocks}
    BY <1>2, <1>3, <2>1, Exact DEF HeapInductive, HeapInvariant, BitsKept
  <2> QED
    BY <1>5, <2>1, <2>2
<1>10. OwnersApart'
  <2>1. /\ \A a, b \in blocks : a # b => Apart(a, b)
        /\ \A a \in blocks, d \in In(Setting) : Apart(a, BlockOf(d))
        /\ \A d, e \in In(Setting) : d # e => Apart(BlockOf(d), BlockOf(e))
    BY <1>2 DEF HeapInductive, OwnersApart
  <2>2. \A d \in In(Setting) : BlockOf(d)' = BlockOf(d)
    BY <1>4 DEF In
  <2> QED
    BY <1>1, <1>2, <2>1, <2>2 DEF OwnersApart
<1>11. ReleasesKnowSize'
  <2>1. SUFFICES ASSUME "reused" \notin torn
                 PROVE  /\ \A d \in In(Clearing) :
                             /\ header[call'[d].start] = call'[d].n
                             /\ call'[d].i <= call'[d].start + call'[d].n
                             /\ call'[d].pc = "clear_store" =>
                                  call'[d].i < call'[d].start + call'[d].n
                             /\ \A b \in blocks : b.start # call'[d].start
                        /\ \A d, e \in In(Clearing) : d # e => call'[d].start # call'[e].start
    BY <1>1, <1>2, <1>3 DEF ReleasesKnowSize
  <2>2. /\ \A d \in In(Clearing) :
             /\ header[call[d].start] = call[d].n
             /\ call[d].i <= call[d].start + call[d].n
             /\ call[d].pc = "clear_store" => call[d].i < call[d].start + call[d].n
             /\ \A b \in blocks : b.start # call[d].start
        /\ \A d, e \in In(Clearing) : d # e => call[d].start # call[e].start
    BY <1>2, <2>1 DEF HeapInductive, ReleasesKnowSize
  <2>3. \A d \in In(Clearing) : d \in Caller
    BY DEF In
  <2>4. ASSUME NEW d \in In(Clearing)
        PROVE  /\ call'[d].i <= call[d].start + call[d].n
               /\ call'[d].pc = "clear_store" => call'[d].i < call[d].start + call[d].n
    <3>1. CASE d = c
      <4>1. call[c].pc = "clear_store"
        BY <3>1, <2>4 DEF In, Clearing, SetStore, ClearStore, At
      <4>2. call[c].i \in Nat /\ call[c].start \in Nat /\ call[c].n \in Nat
        BY Typed
      <4> QED
        BY <1>1, <2>2, <2>4, <3>1, <4>1, <4>2
    <3>2. CASE d # c
      BY <1>1, <2>2, <2>3, <2>4, <3>2
    <3> QED
      BY <3>1, <3>2
  <2> QED
    BY <1>1, <2>2, <2>3, <2>4
<1>12. ReleasesApart'
  <2>1. SUFFICES ASSUME torn' \cap {"choice", "word", "reused"} = {}, NEW d \in In(Clearing)
                 PROVE  /\ \A b \in blocks : Apart(b, BlockOf(d)')
                        /\ \A e \in In(Setting) \cup In(Clearing) :
                                d # e => Apart(BlockOf(e)', BlockOf(d)')
    BY <1>1, <1>2 DEF ReleasesApart
  <2>2. /\ \A b \in blocks : Apart(b, BlockOf(d))
        /\ \A e \in In(Setting) \cup In(Clearing) : d # e => Apart(BlockOf(e), BlockOf(d))
    BY <1>2, <1>3, <2>1 DEF HeapInductive, ReleasesApart
  <2>3. \A e \in In(Setting) \cup In(Clearing) : BlockOf(e)' = BlockOf(e)
    BY <1>4 DEF In
  <2> QED
    BY <2>1, <2>2, <2>3
<1>13. HeapInductive'
  BY <1>1, <1>6, <1>7, <1>8, <1>9, <1>10, <1>11, <1>12 DEF HeapInductive, HeapInvariant
<1> QED
  BY <1>5, <1>13

LEMMA SetStoreKeeps ==
    ASSUME HeapInductive, NEW c \in Caller, SetStore(c)
    PROVE  /\ HeapInductive' /\ SettledBlocks' = SettledBlocks
           /\ "word" \notin torn' => bitmap' = bitmap \cup {call[c].i} /\ SettledBitmap' = SettledBitmap
<1> DEFINE u == call[c].i
<1>1. /\ In(Setting)' = In(Setting) /\ In(Clearing)' = In(Clearing)
      /\ \A d \in Caller : call'[d].n = call[d].n /\ call'[d].start = call[d].start
      /\ \A d \in Caller : d # c => call'[d].i = call[d].i
      /\ call'[c].i = u + 1 /\ call[c].start <= u
      /\ ~corrupt /\ bitmap' \subseteq Units
      /\ torn' = IF bitmap \cap WordOf(u) # call[c].old THEN torn \cup {"word"} ELSE torn
  BY StoreEffect
<1>2. call[c].pc = "set_store" /\ bitmap' = (bitmap \ WordOf(u)) \cup (call[c].old \cup {u})
  BY DEF SetStore, At, StoreWord
<1>3. c \in In(Setting) /\ c \notin In(Clearing)
  BY <1>2 DEF In, Setting, Clearing
<1>4. u \in Nat /\ call[c].start \in Nat /\ call[c].n \in Nat /\ u < call[c].start + call[c].n
  BY <1>2, Typed DEF CallFits, Setting
<1> HIDE DEF u
<1>5. ASSUME "word" \notin torn' PROVE bitmap' = bitmap \cup {u}
  BY <1>1, <1>2, <1>5
<1>6. ASSUME "word" \notin torn' PROVE SettledBitmap' = SettledBitmap
  <2>1. /\ \A d \in In(Setting) : d # c => ToMark(d)' = ToMark(d)
        /\ \A d \in In(Clearing) : Unmarked(d)' = Unmarked(d)
    BY <1>1, <1>3 DEF ToMark, Unmarked, In
  <2>2. \A x : x \in ToMark(c) <=> x \in ToMark(c)' \/ x = u
    BY <1>1, <1>4 DEF ToMark, u
  <2>3. \A x : x \in SettledBitmap' <=> x \in SettledBitmap
    BY <1>1, <1>3, <1>5, <1>6, <2>1, <2>2, SettledUnit
  <2> QED
    BY <2>3
<1>7. ASSUME torn' \cap {"choice", "word", "reused"} = {}, NEW d \in In(Clearing)
      PROVE  Unmarked(d)' \cap bitmap' = {}
  <2>1. torn \cap {"choice", "word", "reused"} = {}
    BY <1>1, <1>7
  <2>2. /\ Unmarked(d) \cap bitmap = {} /\ Apart(BlockOf(c), BlockOf(d))
        /\ call[d].i <= call[d].start + call[d].n
    BY <1>1, <1>3, <1>7, <2>1 DEF HeapInductive, ReleasesApart, ReleasesKnowSize
  <2>3. Unmarked(d)' = Unmarked(d)
    BY <1>1, <1>3, <1>7 DEF Unmarked, In
  <2>4. u \in Extent(BlockOf(c))
    BY <1>1, <1>4 DEF Extent, BlockOf
  <2>5. Unmarked(d) \subseteq Extent(BlockOf(d))
    <3>1. call[d].i \in Nat /\ call[d].start \in Nat /\ call[d].n \in Nat
      BY <1>7, Typed DEF In
    <3> QED
      BY <2>2, <3>1 DEF Unmarked, Extent, BlockOf
  <2> QED
    BY <1>5, <1>7, <2>2, <2>3, <2>4, <2>5 DEF Apart
<1>8. HeapInductive' /\ SettledBlocks' = SettledBlocks
  <2>1. torn' \cap {"choice", "word", "reused"} = {} =>
             /\ SettledBitmap' = SettledBitmap
             /\ \A d \in In(Clearing) : Unmarked(d)' \cap bitmap' = {}
    BY <1>6, <1>7
  <2> QED
    BY <2>1, StoreKeeps
<1> QED
  BY <1>5, <1>6, <1>8 DEF u

LEMMA ClearStoreKeeps ==
    ASSUME HeapInductive, NEW c \in Caller, ClearStore(c)
    PROVE  /\ HeapInductive' /\ SettledBlocks' = SettledBlocks
           /\ torn' \cap {"choice", "word", "reused"} = {} =>
                bitmap' = bitmap \ {call[c].i} /\ SettledBitmap' = SettledBitmap
<1> DEFINE u == call[c].i
<1>1. /\ In(Setting)' = In(Setting) /\ In(Clearing)' = In(Clearing)
      /\ \A d \in Caller : call'[d].n = call[d].n /\ call'[d].start = call[d].start
      /\ \A d \in Caller : d # c => call'[d].i = call[d].i
      /\ call'[c].i = u + 1 /\ call[c].start <= u
      /\ ~corrupt /\ bitmap' \subseteq Units
      /\ torn' = IF bitmap \cap WordOf(u) # call[c].old THEN torn \cup {"word"} ELSE torn
  BY StoreEffect
<1>2. call[c].pc = "clear_store" /\ bitmap' = (bitmap \ WordOf(u)) \cup (call[c].old \ {u})
  BY DEF ClearStore, At, StoreWord
<1>3. c \in In(Clearing) /\ c \notin In(Setting)
  BY <1>2 DEF In, Setting, Clearing
<1>4. u \in Nat /\ call[c].start \in Nat /\ call[c].n \in Nat
  BY Typed
<1> HIDE DEF u
<1>5. u \in WordOf(u)
  BY <1>4, UnitInWord, HeapAssumption, DivMod DEF WordOf
<1>6. ASSUME "word" \notin torn' PROVE bitmap' = bitmap \ {u}
  BY <1>1, <1>2, <1>5, <1>6
<1>7. /\ \A d \in In(Setting) : ToMark(d)' = ToMark(d)
      /\ \A d \in In(Clearing) : d # c => Unmarked(d)' = Unmarked(d)
  BY <1>1, <1>3 DEF ToMark, Unmarked, In
<1>8. \A x : x \in Unmarked(c)' <=> x \in Unmarked(c) \/ x = u
  BY <1>1, <1>4 DEF Unmarked, u
<1>9. ASSUME torn' \cap {"choice", "word", "reused"} = {} PROVE SettledBitmap' = SettledBitmap
  <2>1. torn \cap {"choice", "word", "reused"} = {}
    BY <1>1, <1>9
  <2>2. u < call[c].start + call[c].n
    BY <1>1, <1>2, <1>3, <2>1 DEF HeapInductive, ReleasesKnowSize, u
  <2>3. u \in Extent(BlockOf(c))
    BY <1>1, <1>4, <2>2 DEF Extent, BlockOf
  <2>4. SettledBitmap = UNION {Extent(a) : a \in SettledBlocks}
    BY <1>1, <2>1, Exact DEF HeapInductive, HeapInvariant, BitsKept
  <2>5. u \in SettledBitmap
    BY <1>3, <2>3, <2>4, SettledBlock
  <2>6. \A x : x \in SettledBitmap' <=> x \in SettledBitmap
    BY <1>1, <1>3, <1>6, <1>7, <1>8, <1>9, <2>5, SettledUnit
  <2> QED
    BY <2>6
<1>10. ASSUME torn' \cap {"choice", "word", "reused"} = {}, NEW d \in In(Clearing)
       PROVE  Unmarked(d)' \cap bitmap' = {}
  <2>1. Unmarked(d) \cap bitmap = {}
    BY <1>1, <1>10 DEF HeapInductive, ReleasesApart
  <2> QED
    BY <1>6, <1>7, <1>8, <1>10, <2>1
<1>11. HeapInductive' /\ SettledBlocks' = SettledBlocks
  <2>1. torn' \cap {"choice", "word", "reused"} = {} =>
             /\ SettledBitmap' = SettledBitmap
             /\ \A d \in In(Clearing) : Unmarked(d)' \cap bitmap' = {}
    BY <1>9, <1>10
  <2> QED
    BY <2>1, StoreKeeps
<1> QED
  BY <1>6, <1>9, <1>11 DEF u

-----------------------------------------------------------------------------
(* The ends of the calls, and the beginning of mem_free. *)

\* A call returns.
LEMMA CallEnds ==
    ASSUME HeapInductive, NEW c \in Caller, call' = [call EXCEPT ![c] = Quiet]
    PROVE  /\ call' \in [Caller -> Call] /\ LocalsFit'
           /\ \A d \in Caller : d # c => call'[d] = call[d]
           /\ In(Setting)' = In(Setting) \ {c} /\ In(Clearing)' = In(Clearing) \ {c}
           /\ \A d \in In(Setting) \ {c} : ToMark(d)' = ToMark(d)
           /\ \A d \in In(Clearing) \ {c} : Unmarked(d)' = Unmarked(d)
           /\ \A d \in (In(Setting) \cup In(Clearing)) \ {c} : BlockOf(d)' = BlockOf(d)
<1>1. Quiet \in Call /\ Quiet.pc = "idle"
  BY Sized DEF Quiet, Call
<1>2. CallFits(Quiet)
  BY <1>1 DEF CallFits, Searching, Setting, Clearing
<1>3. /\ call' \in [Caller -> Call] /\ LocalsFit'
      /\ call'[c] = Quiet /\ \A d \in Caller : d # c => call'[d] = call[d]
  BY <1>1, <1>2, OneCall
<1>4. In(Setting)' = In(Setting) \ {c} /\ In(Clearing)' = In(Clearing) \ {c}
  BY <1>1, <1>3 DEF In, Setting, Clearing
<1>5. \A d \in (In(Setting) \cup In(Clearing)) \ {c} : call'[d] = call[d]
  BY <1>3 DEF In
<1> QED
  BY <1>3, <1>4, <1>5 DEF ToMark, Unmarked, BlockOf

\* Blocks that share no unit begin at different ones.
LEMMA ApartStarts ==
    ASSUME NEW a \in Block, NEW b \in Block
    PROVE  /\ a.start \in Extent(a) /\ (Apart(a, b) => a.start # b.start)
           /\ Apart(a, b) = Apart(b, a)
<1>1. a.start \in Extent(a) /\ b.start \in Extent(b)
  BY Sized DEF Block, Extent
<1> QED
  BY <1>1 DEF Apart

\* The block a call works on is a block.
LEMMA WorksOnBlock ==
    ASSUME HeapInductive, NEW c \in In(Setting) \cup In(Clearing)
    PROVE  BlockOf(c) \in Block /\ BlockOf(c).start = call[c].start /\ BlockOf(c).units = call[c].n
           /\ call[c].start + call[c].n <= NUM_UNITS /\ call[c].n \in Sizes
           /\ BlockOf(c) \in SettledBlocks
<1>1. c \in Caller /\ call[c].pc \in Setting \cup Clearing
  BY DEF In
<1>2. call[c].n \in Sizes /\ call[c].start \in Units /\ call[c].start + call[c].n <= NUM_UNITS
  BY <1>1, Typed DEF CallFits
<1> QED
  BY <1>2, SettledBlock DEF BlockOf, Block

\* The header is written and the block goes to its owner.
LEMMA ReturnKeeps ==
    ASSUME HeapInductive, NEW c \in Caller, Return(c)
    PROVE  HeapInductive' /\ UNCHANGED Whole!heapvars
<1> DEFINE B == BlockOf(c)
<1>1. /\ call[c].pc = "set" /\ ~corrupt /\ call[c].i = call[c].start + call[c].n
      /\ header' = [header EXCEPT ![call[c].start] = call[c].n]
      /\ blocks' = blocks \cup {B}
      /\ call' = [call EXCEPT ![c] = Quiet]
      /\ torn' = (IF StillRead(B) = {} THEN torn ELSE torn \cup {"reused"})
      /\ corrupt' = (StillRead(B) \ {call[c].start} # {})
      /\ bitmap' = bitmap /\ latest' = latest
  BY DEF Return, At
<1>2. c \in In(Setting) /\ c \notin In(Clearing)
  BY <1>1 DEF In, Setting, Clearing
<1>3. /\ B \in Block /\ B.start = call[c].start /\ B.units = call[c].n
      /\ call[c].start + call[c].n <= NUM_UNITS /\ call[c].n \in Sizes
      /\ B \in SettledBlocks
  BY <1>2, WorksOnBlock
<1> HIDE DEF B
<1>4. /\ call' \in [Caller -> Call] /\ LocalsFit'
      /\ \A d \in Caller : d # c => call'[d] = call[d]
      /\ In(Setting)' = In(Setting) \ {c} /\ In(Clearing)' = In(Clearing)
      /\ \A d \in In(Setting) \ {c} : ToMark(d)' = ToMark(d)
      /\ \A d \in In(Clearing) : d # c /\ Unmarked(d)' = Unmarked(d)
      /\ \A d \in (In(Setting) \cup In(Clearing)) \ {c} : BlockOf(d)' = BlockOf(d)
  <2>1. In(Clearing) \ {c} = In(Clearing) /\ \A d \in In(Clearing) : d # c
    BY <1>2
  <2>2. call' = [call EXCEPT ![c] = Quiet]
    BY <1>1
  <2> QED
    BY <2>1, <2>2, CallEnds
<1>5. /\ header \in [Units -> Sizes \cup {0}] /\ call[c].start \in Units
      /\ blocks \subseteq Block /\ call[c].n \in Nat /\ call[c].i \in Nat
  BY Typed
<1>6. /\ header'[call[c].start] = call[c].n
      /\ \A u \in Units : u # call[c].start => header'[u] = header[u]
  BY <1>1, <1>5
<1>7. /\ \A a \in blocks : Apart(a, B) /\ a.start # B.start
      /\ \A d \in In(Setting) : d # c => Apart(B, BlockOf(d))
  <2>1. /\ \A a \in blocks : Apart(a, B)
        /\ \A d \in In(Setting) : d # c => Apart(B, BlockOf(d))
    BY <1>1, <1>2 DEF HeapInductive, OwnersApart, B
  <2> QED
    BY <1>3, <1>5, <2>1, ApartStarts
<1>8. SettledBitmap' = SettledBitmap
  <2>1. ToMark(c) = {}
    BY <1>1, <1>5, Typed DEF ToMark
  <2>2. \A u : u \in SettledBitmap' <=> u \in SettledBitmap
    BY <1>1, <1>4, <2>1, SettledUnit
  <2> QED
    BY <2>2
<1>9. SettledBlocks' = SettledBlocks
  <2>1. \A b : b \in SettledBlocks' <=> b \in SettledBlocks
    BY <1>1, <1>2, <1>4, SettledBlock DEF B
  <2> QED
    BY <2>1
<1>10. torn \subseteq torn' /\ torn' \subseteq torn \cup {"reused"}
  BY <1>1
<1>11. LatestIsOne'
  BY <1>1, <1>9 DEF HeapInductive, LatestIsOne
<1>12. BlocksFit'
  BY <1>1, <1>3 DEF HeapInductive, BlocksFit
<1>13. HeadersFit'
  <2>1. \A u \in Units : u + header[u] <= NUM_UNITS
    BY DEF HeapInductive, HeadersFit
  <2>2. \A u \in Units : u + header'[u] <= NUM_UNITS
    BY <1>3, <1>6, <2>1
  <2> QED
    BY <2>2 DEF HeadersFit
<1>14. PreemptTypeOK'
  <2>1. torn' \subseteq Damage \cup {"between"} /\ bitmap' \subseteq Units
    BY <1>1, <1>10, Typed DEF Damage
  <2>2. blocks' \subseteq Block /\ header' \in [Units -> Sizes \cup {0}]
    BY <1>1, <1>3, <1>5
  <2> QED
    BY <1>4, <1>11, <2>1, <2>2, TypedAfter
<1>15. HeadersKept'
  <2>1. SUFFICES ASSUME "reused" \notin torn', NEW b \in blocks' PROVE header'[b.start] = b.units
    BY DEF HeadersKept
  <2>2. "reused" \notin torn
    BY <1>10, <2>1
  <2>3. CASE b = B
    BY <1>3, <1>6, <2>3
  <2>4. CASE b \in blocks
    <3>1. header[b.start] = b.units
      BY <1>1, <2>2, <2>4 DEF HeapInductive, HeapInvariant, HeadersKept
    <3>2. b.start # call[c].start /\ b.start \in Units
      BY <1>3, <1>5, <1>7, <2>4 DEF Block
    <3> QED
      BY <1>6, <3>1, <3>2
  <2> QED
    BY <1>1, <2>1, <2>3, <2>4
<1>16. BitsKept'
  <2>1. SUFFICES ASSUME torn' \cap {"choice", "word", "reused"} = {}
                 PROVE  SettledBitmap' = UNION {Extent(a) : a \in SettledBlocks'}
    BY DEF BitsKept, Whole!ExactAccounting, Whole!Extent, Extent
  <2>2. SettledBitmap = UNION {Extent(a) : a \in SettledBlocks}
    BY <1>1, <1>10, <2>1, Exact DEF HeapInductive, HeapInvariant, BitsKept
  <2> QED
    BY <1>8, <1>9, <2>2
<1>17. CorruptOnlyIfTorn'
  BY <1>1 DEF CorruptOnlyIfTorn, Damage
<1>18. OwnersApart'
  <2>1. /\ \A a, b \in blocks : a # b => Apart(a, b)
        /\ \A a \in blocks, d \in In(Setting) : Apart(a, BlockOf(d))
        /\ \A d, e \in In(Setting) : d # e => Apart(BlockOf(d), BlockOf(e))
    BY <1>1 DEF HeapInductive, OwnersApart
  <2>2. \A a \in blocks : Apart(B, a)
    BY <1>7 DEF Apart
  <2> QED
    BY <1>1, <1>4, <1>7, <2>1, <2>2 DEF OwnersApart
<1>19. ReleasesKnowSize'
  <2>1. SUFFICES ASSUME "reused" \notin torn'
                 PROVE  /\ \A d \in In(Clearing) :
                             /\ header'[call[d].start] = call[d].n
                             /\ call[d].i <= call[d].start + call[d].n
                             /\ call[d].pc = "clear_store" => call[d].i < call[d].start + call[d].n
                             /\ \A b \in blocks' : b.start # call[d].start
                        /\ \A d, e \in In(Clearing) : d # e => call[d].start # call[e].start
    <3>1. \A d \in In(Clearing) : call'[d] = call[d]
      BY <1>4 DEF In
    <3> QED
      BY <1>4, <2>1, <3>1 DEF ReleasesKnowSize
  <2>2. /\ \A d \in In(Clearing) :
             /\ header[call[d].start] = call[d].n
             /\ call[d].i <= call[d].start + call[d].n
             /\ call[d].pc = "clear_store" => call[d].i < call[d].start + call[d].n
             /\ \A b \in blocks : b.start # call[d].start
        /\ \A d, e \in In(Clearing) : d # e => call[d].start # call[e].start
    BY <1>1, <1>10, <2>1 DEF HeapInductive, ReleasesKnowSize
  <2>3. StillRead(B) = {}
    BY <1>1, <2>1
  <2>4. B.start \in Extent(B)
    BY <1>3, ApartStarts
  <2>5. \A d \in In(Clearing) : call[d].start # B.start
    BY <2>3, <2>4 DEF StillRead
  <2>6. \A d \in In(Clearing) : call[d].start \in Units
    BY Typed DEF In
  <2> QED
    BY <1>1, <1>3, <1>6, <2>2, <2>5, <2>6
<1>20. ReleasesApart'
  <2>1. SUFFICES ASSUME torn' \cap {"choice", "word", "reused"} = {}, NEW d \in In(Clearing)
                 PROVE  /\ Unmarked(d)' \cap bitmap' = {}
                        /\ \A b \in blocks' : Apart(b, BlockOf(d)')
                        /\ \A e \in In(Setting)' \cup In(Clearing)' :
                                d # e => Apart(BlockOf(e)', BlockOf(d)')
    BY <1>4 DEF ReleasesApart
  <2>2. /\ Unmarked(d) \cap bitmap = {}
        /\ \A b \in blocks : Apart(b, BlockOf(d))
        /\ \A e \in In(Setting) \cup In(Clearing) : d # e => Apart(BlockOf(e), BlockOf(d))
    BY <1>1, <1>10, <2>1 DEF HeapInductive, ReleasesApart
  <2>3. Apart(B, BlockOf(d))
    BY <1>2, <2>1, <2>2 DEF B
  <2>4. BlockOf(d)' = BlockOf(d)
    BY <1>4, <2>1
  <2> QED
    BY <1>1, <1>4, <2>1, <2>2, <2>3, <2>4
<1>21. HeapInductive'
  BY <1>4, <1>11, <1>12, <1>13, <1>14, <1>15, <1>16, <1>17, <1>18, <1>19, <1>20
     DEF HeapInductive, HeapInvariant
<1> QED
  BY <1>1, <1>8, <1>9, <1>21 DEF Whole!heapvars

\* The block goes from its owner to the call.
LEMMA FreeKeeps ==
    ASSUME HeapInductive, NEW c \in Caller, NEW b \in blocks, Free(c, b)
    PROVE  HeapInductive' /\ UNCHANGED Whole!heapvars
<1> DEFINE k == [Quiet EXCEPT !.pc = "clear", !.n = b.units, !.i = b.start, !.start = b.start]
<1>1. ~corrupt /\ torn \cap Damage = {} /\ call[c].pc = "idle"
  BY DEF Free, MayBegin
<1>2. /\ b \in Block /\ b.start \in Units /\ b.units \in Sizes
      /\ b.start \in Nat /\ b.units \in Nat /\ b.units >= 1 /\ b.start \in 0 .. NUM_UNITS
      /\ b.start + b.units <= NUM_UNITS
      /\ header[b.start] = b.units
  BY <1>1, Typed, Sized DEF Block, HeapInductive, HeapInvariant, HeadersKept, BlocksFit, Damage
<1>3. /\ blocks' = blocks \ {b} /\ call' = [call EXCEPT ![c] = k]
      /\ UNCHANGED <<latest, bitmap, header, torn, corrupt>>
  BY <1>2 DEF Free
<1>4. /\ k \in Call /\ k.pc = "clear" /\ k.n = b.units /\ k.i = b.start /\ k.start = b.start
  <2>1. Quiet \in Call
    BY Sized DEF Quiet, Call
  <2> QED
    BY <1>2, <2>1 DEF Call, Clearing
<1> HIDE DEF k
<1>5. CallFits(k)
  BY <1>2, <1>4 DEF CallFits, Searching, Setting, Clearing
<1>6. /\ call' \in [Caller -> Call] /\ LocalsFit'
      /\ call'[c] = k /\ \A d \in Caller : d # c => call'[d] = call[d]
  BY <1>3, <1>4, <1>5, OneCall
<1>7. /\ c \notin In(Setting) \cup In(Clearing)
      /\ In(Setting)' = In(Setting) /\ In(Clearing)' = In(Clearing) \cup {c}
  BY <1>1, <1>4, <1>6 DEF In, Setting, Clearing
<1>8. \A d \in In(Setting) \cup In(Clearing) : d \in Caller /\ d # c /\ call'[d] = call[d]
  BY <1>6, <1>7 DEF In
<1>9. /\ \A d \in In(Setting) : ToMark(d)' = ToMark(d)
      /\ \A d \in In(Clearing) : Unmarked(d)' = Unmarked(d)
      /\ \A d \in In(Setting) \cup In(Clearing) : BlockOf(d)' = BlockOf(d)
  BY <1>8 DEF ToMark, Unmarked, BlockOf
<1>10. Unmarked(c)' = {} /\ BlockOf(c)' = b
  <2>1. Unmarked(c)' = {}
    BY <1>2, <1>4, <1>6 DEF Unmarked
  <2>2. BlockOf(c)' = b
    BY <1>2, <1>4, <1>6 DEF BlockOf, Block
  <2> QED
    BY <2>1, <2>2
<1>11. SettledBitmap' = SettledBitmap
  <2>1. \A u : u \in SettledBitmap' <=> u \in SettledBitmap
    BY <1>3, <1>7, <1>9, <1>10, SettledUnit
  <2> QED
    BY <2>1
<1>12. SettledBlocks' = SettledBlocks
  <2>1. \A a : a \in SettledBlocks' <=> a \in SettledBlocks
    BY <1>3, <1>7, <1>9, <1>10, SettledBlock
  <2> QED
    BY <2>1
<1>13. LatestIsOne' /\ BlocksFit' /\ HeadersFit'
  BY <1>3, <1>12 DEF HeapInductive, LatestIsOne, BlocksFit, HeadersFit
<1>14. PreemptTypeOK'
  <2>1. /\ torn' \subseteq Damage \cup {"between"} /\ bitmap' \subseteq Units
        /\ blocks' \subseteq Block /\ header' \in [Units -> Sizes \cup {0}]
    BY <1>3, Typed
  <2> QED
    BY <1>6, <1>13, <2>1, TypedAfter
<1>15. HeadersKept' /\ CorruptOnlyIfTorn'
  BY <1>1, <1>3 DEF HeapInductive, HeapInvariant, HeadersKept, CorruptOnlyIfTorn
<1>16. BitsKept'
  BY <1>3, <1>11, <1>12
     DEF HeapInductive, HeapInvariant, BitsKept, Whole!ExactAccounting, Whole!Extent
<1>17. /\ \A a, e \in blocks : a # e => Apart(a, e)
       /\ \A a \in blocks, d \in In(Setting) : Apart(a, BlockOf(d))
       /\ \A d, e \in In(Setting) : d # e => Apart(BlockOf(d), BlockOf(e))
  BY <1>1 DEF HeapInductive, OwnersApart
<1>18. OwnersApart'
  BY <1>3, <1>7, <1>9, <1>17 DEF OwnersApart
<1>19. /\ \A d \in In(Clearing) :
             /\ header[call[d].start] = call[d].n
             /\ call[d].i <= call[d].start + call[d].n
             /\ call[d].pc = "clear_store" => call[d].i < call[d].start + call[d].n
             /\ \A a \in blocks : a.start # call[d].start
       /\ \A d, e \in In(Clearing) : d # e => call[d].start # call[e].start
  BY <1>1 DEF HeapInductive, ReleasesKnowSize, Damage
<1>20. \A a \in blocks : a # b => a.start # b.start /\ Apart(a, b)
  BY <1>2, <1>17, ApartStarts, Typed
<1>21. ReleasesKnowSize'
  <2>1. ASSUME NEW d \in In(Clearing)'
        PROVE  /\ header[call'[d].start] = call'[d].n
               /\ call'[d].i <= call'[d].start + call'[d].n
               /\ call'[d].pc = "clear_store" => call'[d].i < call'[d].start + call'[d].n
               /\ \A a \in blocks' : a.start # call'[d].start
               /\ \A e \in In(Clearing)' : d # e => call'[d].start # call'[e].start
    <3>1. CASE d = c
      <4>1. \A e \in In(Clearing) : b.start # call[e].start
        BY <1>19
      <4>2. \A e \in In(Clearing)' : c # e => b.start # call'[e].start
        BY <1>7, <1>8, <4>1
      <4> QED
        BY <1>2, <1>3, <1>4, <1>6, <1>20, <3>1, <4>2
    <3>2. CASE d # c
      <4>1. d \in In(Clearing) /\ call'[d] = call[d] /\ b.start # call[d].start
        BY <1>7, <1>8, <1>19, <2>1, <3>2
      <4>2. \A e \in In(Clearing)' : d # e => call[d].start # call'[e].start
        BY <1>4, <1>6, <1>7, <1>8, <1>19, <4>1
      <4> QED
        BY <1>3, <1>19, <4>1, <4>2
    <3> QED
      BY <3>1, <3>2
  <2> QED
    BY <1>3, <2>1 DEF ReleasesKnowSize
<1>22. /\ \A d \in In(Clearing) : Unmarked(d) \cap bitmap = {}
       /\ \A d \in In(Clearing) : \A a \in blocks : Apart(a, BlockOf(d))
       /\ \A d \in In(Clearing) : \A e \in In(Setting) \cup In(Clearing) :
                d # e => Apart(BlockOf(e), BlockOf(d))
  BY <1>1 DEF HeapInductive, ReleasesApart, Damage
<1>23. ReleasesApart'
  <2>1. ASSUME NEW d \in In(Clearing)'
        PROVE  /\ Unmarked(d)' \cap bitmap = {}
               /\ \A a \in blocks' : Apart(a, BlockOf(d)')
               /\ \A e \in In(Setting)' \cup In(Clearing)' : d # e => Apart(BlockOf(e)', BlockOf(d)')
    <3>1. CASE d = c
      <4>1. \A e \in In(Setting) \cup In(Clearing) : Apart(BlockOf(e), b)
        BY <1>17, <1>22 DEF Apart
      <4> QED
        BY <1>3, <1>7, <1>9, <1>10, <1>20, <3>1, <4>1
    <3>2. CASE d # c
      <4>1. d \in In(Clearing)
        BY <1>7, <2>1, <3>2
      <4> QED
        BY <1>3, <1>7, <1>9, <1>10, <1>22, <3>2, <4>1
    <3> QED
      BY <3>1, <3>2
  <2> QED
    BY <1>3, <2>1 DEF ReleasesApart
<1>24. HeapInductive'
  BY <1>6, <1>13, <1>14, <1>15, <1>16, <1>18, <1>21, <1>23 DEF HeapInductive, HeapInvariant
<1> QED
  BY <1>3, <1>11, <1>12, <1>24 DEF Whole!heapvars

\* The units a call still has to mark, or has unmarked, are its block's.
LEMMA PartOfBlock ==
    ASSUME HeapInductive
    PROVE  /\ \A c \in In(Setting) : ToMark(c) \subseteq Extent(BlockOf(c))
           /\ ~corrupt /\ "reused" \notin torn =>
                \A c \in In(Clearing) : Unmarked(c) \subseteq Extent(BlockOf(c))
<1>1. ASSUME NEW c \in In(Setting) PROVE ToMark(c) \subseteq Extent(BlockOf(c))
  <2>1. c \in Caller /\ call[c].pc \in Setting
    BY DEF In
  <2>2. /\ call[c].i \in Nat /\ call[c].start \in Nat /\ call[c].n \in Nat
        /\ call[c].start <= call[c].i
    BY <2>1, Typed DEF CallFits
  <2> QED
    BY <2>2 DEF ToMark, Extent, BlockOf
<1>2. ASSUME NEW c \in In(Clearing), ~corrupt, "reused" \notin torn
      PROVE  Unmarked(c) \subseteq Extent(BlockOf(c))
  <2>1. call[c].i \in Nat /\ call[c].start \in Nat /\ call[c].n \in Nat
    BY Typed DEF In
  <2>2. call[c].i <= call[c].start + call[c].n
    BY <1>2 DEF HeapInductive, ReleasesKnowSize
  <2> QED
    BY <2>1, <2>2 DEF Unmarked, Extent, BlockOf
<1> QED
  BY <1>1, <1>2

\* The magic goes, and the block is nobody's.
LEMMA FreeEndKeeps ==
    ASSUME HeapInductive, NEW c \in Caller, FreeEnd(c)
    PROVE  /\ HeapInductive'
           /\ torn \cap {"choice", "word", "reused"} = {} =>
                /\ SettledBitmap' = SettledBitmap \ Extent(BlockOf(c))
                /\ BlockOf(c) \in SettledBlocks /\ SettledBlocks' = SettledBlocks \ {BlockOf(c)}
                /\ latest' = latest \ {BlockOf(c)}
<1> DEFINE B == BlockOf(c)
<1>1. /\ call[c].pc = "clear" /\ ~corrupt /\ call[c].i - call[c].start >= header[call[c].start]
      /\ header' = [header EXCEPT ![call[c].start] = 0]
      /\ call' = [call EXCEPT ![c] = Quiet]
      /\ latest' = latest \ {B}
      /\ UNCHANGED <<bitmap, blocks, torn, corrupt>>
  BY DEF FreeEnd, At
<1>2. c \in In(Clearing) /\ c \notin In(Setting)
  BY <1>1 DEF In, Setting, Clearing
<1>3. /\ B \in Block /\ B.start = call[c].start /\ B.units = call[c].n
      /\ call[c].start + call[c].n <= NUM_UNITS /\ call[c].n \in Sizes
      /\ B \in SettledBlocks
  BY <1>2, WorksOnBlock
<1> HIDE DEF B
<1>4. /\ call' \in [Caller -> Call] /\ LocalsFit'
      /\ \A d \in Caller : d # c => call'[d] = call[d]
      /\ In(Setting)' = In(Setting) /\ In(Clearing)' = In(Clearing) \ {c}
      /\ \A d \in In(Setting) : d # c /\ ToMark(d)' = ToMark(d)
      /\ \A d \in In(Clearing) \ {c} : Unmarked(d)' = Unmarked(d)
      /\ \A d \in (In(Setting) \cup In(Clearing)) \ {c} : BlockOf(d)' = BlockOf(d)
  <2>1. In(Setting) \ {c} = In(Setting) /\ \A d \in In(Setting) : d # c
    BY <1>2
  <2>2. call' = [call EXCEPT ![c] = Quiet]
    BY <1>1
  <2> QED
    BY <2>1, <2>2, CallEnds
<1>5. /\ header \in [Units -> Sizes \cup {0}] /\ call[c].start \in Units
      /\ blocks \subseteq Block /\ call[c].n \in Nat /\ call[c].i \in Nat /\ call[c].start \in Nat
  BY Typed
<1>6. /\ header'[call[c].start] = 0
      /\ \A u \in Units : u # call[c].start => header'[u] = header[u]
  BY <1>1, <1>5
<1>7. \A b : b \in SettledBlocks /\ b # B => b \in SettledBlocks'
  <2>1. \A d \in In(Setting) \cup In(Clearing) : BlockOf(d) # B =>
           d \in In(Setting)' \cup In(Clearing)' /\ BlockOf(d)' = BlockOf(d)
    BY <1>2, <1>4 DEF B
  <2> QED
    BY <1>1, <2>1, SettledBlock
<1>8. LatestIsOne'
  BY <1>1, <1>7 DEF HeapInductive, LatestIsOne
<1>9. BlocksFit'
  BY <1>1 DEF HeapInductive, BlocksFit
<1>10. HeadersFit'
  <2>1. \A u \in Units : u + header[u] <= NUM_UNITS
    BY DEF HeapInductive, HeadersFit
  <2>2. \A u \in Units : u + header'[u] <= NUM_UNITS
    BY <1>6, <2>1, Sized
  <2> QED
    BY <2>2 DEF HeadersFit
<1>11. PreemptTypeOK'
  <2>1. torn' \subseteq Damage \cup {"between"} /\ bitmap' \subseteq Units /\ blocks' \subseteq Block
    BY <1>1, Typed
  <2>2. header' \in [Units -> Sizes \cup {0}]
    BY <1>1, <1>5
  <2> QED
    BY <1>4, <1>8, <2>1, <2>2, TypedAfter
<1>12. ASSUME "reused" \notin torn
       PROVE  /\ \A d \in In(Clearing) :
                   /\ header[call[d].start] = call[d].n
                   /\ call[d].i <= call[d].start + call[d].n
                   /\ call[d].pc = "clear_store" => call[d].i < call[d].start + call[d].n
                   /\ \A b \in blocks : b.start # call[d].start
              /\ \A d, e \in In(Clearing) : d # e => call[d].start # call[e].start
  BY <1>1, <1>12 DEF HeapInductive, ReleasesKnowSize
<1>13. HeadersKept'
  <2>1. SUFFICES ASSUME "reused" \notin torn, NEW b \in blocks PROVE header'[b.start] = b.units
    BY <1>1 DEF HeadersKept
  <2>2. header[b.start] = b.units
    BY <1>1, <2>1 DEF HeapInductive, HeapInvariant, HeadersKept
  <2>3. b.start # call[c].start /\ b.start \in Units
    BY <1>2, <1>5, <1>12, <2>1 DEF Block
  <2> QED
    BY <1>6, <2>2, <2>3
<1>14. CorruptOnlyIfTorn'
  BY <1>1 DEF CorruptOnlyIfTorn
<1>15. OwnersApart'
  <2>1. /\ \A a, b \in blocks : a # b => Apart(a, b)
        /\ \A a \in blocks, d \in In(Setting) : Apart(a, BlockOf(d))
        /\ \A d, e \in In(Setting) : d # e => Apart(BlockOf(d), BlockOf(e))
    BY <1>1 DEF HeapInductive, OwnersApart
  <2> QED
    BY <1>1, <1>4, <2>1 DEF OwnersApart
<1>16. ReleasesKnowSize'
  <2>1. SUFFICES ASSUME "reused" \notin torn
                 PROVE  /\ \A d \in In(Clearing) \ {c} :
                             /\ header'[call[d].start] = call[d].n
                             /\ call[d].i <= call[d].start + call[d].n
                             /\ call[d].pc = "clear_store" => call[d].i < call[d].start + call[d].n
                             /\ \A b \in blocks : b.start # call[d].start
                        /\ \A d, e \in In(Clearing) \ {c} : d # e => call[d].start # call[e].start
    <3>1. \A d \in In(Clearing) \ {c} : call'[d] = call[d]
      BY <1>4 DEF In
    <3> QED
      BY <1>1, <1>4, <2>1, <3>1 DEF ReleasesKnowSize
  <2>2. \A d \in In(Clearing) : call[d].start \in Units
    BY Typed DEF In
  <2> QED
    BY <1>2, <1>6, <1>12, <2>1, <2>2
<1>17. ASSUME torn \cap {"choice", "word", "reused"} = {}
       PROVE  /\ \A d \in In(Clearing) : Unmarked(d) \cap bitmap = {}
              /\ \A d \in In(Clearing) : \A b \in blocks : Apart(b, BlockOf(d))
              /\ \A d \in In(Clearing) : \A e \in In(Setting) \cup In(Clearing) :
                   d # e => Apart(BlockOf(e), BlockOf(d))
  BY <1>1, <1>17 DEF HeapInductive, ReleasesApart
<1>18. ReleasesApart'
  <2>1. ASSUME torn \cap {"choice", "word", "reused"} = {}, NEW d \in In(Clearing) \ {c}
        PROVE  /\ Unmarked(d)' \cap bitmap = {}
               /\ \A b \in blocks : Apart(b, BlockOf(d)')
               /\ \A e \in In(Setting) \cup (In(Clearing) \ {c}) :
                    d # e => Apart(BlockOf(e)', BlockOf(d)')
    BY <1>4, <1>17, <2>1
  <2> QED
    BY <1>1, <1>4, <2>1 DEF ReleasesApart
<1>19. ASSUME torn \cap {"choice", "word", "reused"} = {}
       PROVE  /\ SettledBitmap' = SettledBitmap \ Extent(B)
              /\ SettledBlocks' = SettledBlocks \ {B}
  <2>1. Unmarked(c) = Extent(B)
    <3>1. call[c].i = call[c].start + call[c].n
      BY <1>1, <1>2, <1>5, <1>12, <1>19
    <3> QED
      BY <1>3, <1>5, <3>1 DEF Unmarked, Extent
  <2>2. /\ \A b \in blocks : Apart(b, B) /\ b # B
        /\ \A e \in In(Setting) \cup In(Clearing) : e # c => Apart(BlockOf(e), B) /\ BlockOf(e) # B
    <3>1. /\ \A b \in blocks : Apart(b, B)
          /\ \A e \in In(Setting) \cup In(Clearing) : e # c => Apart(BlockOf(e), B)
      BY <1>2, <1>17, <1>19 DEF B
    <3>2. ~Apart(B, B)
      BY <1>3, ApartStarts
    <3> QED
      BY <3>1, <3>2
  <2>3. /\ \A d \in In(Setting) : ToMark(d) \subseteq Extent(BlockOf(d))
        /\ \A d \in In(Clearing) : Unmarked(d) \subseteq Extent(BlockOf(d))
    BY <1>1, <1>19, PartOfBlock
  <2>4. \A u : u \in SettledBitmap' <=> u \in SettledBitmap /\ u \notin Extent(B)
    <3>1. ASSUME NEW u, u \in SettledBitmap' PROVE u \in SettledBitmap /\ u \notin Extent(B)
      <4>1. CASE u \in bitmap
        BY <1>2, <1>17, <1>19, <2>1, <4>1, SettledUnit
      <4>2. CASE \E d \in In(Setting) : u \in ToMark(d)
        BY <1>2, <2>2, <2>3, <4>2, SettledUnit DEF Apart
      <4>3. CASE \E d \in In(Clearing) \ {c} : u \in Unmarked(d)
        BY <2>2, <2>3, <4>3, SettledUnit DEF Apart
      <4> QED
        BY <1>1, <1>4, <3>1, <4>1, <4>2, <4>3, SettledUnit
    <3>2. ASSUME NEW u, u \in SettledBitmap, u \notin Extent(B) PROVE u \in SettledBitmap'
      <4>1. \A d \in In(Clearing) : u \in Unmarked(d) => d # c
        BY <2>1, <3>2
      <4> QED
        BY <1>1, <1>4, <3>2, <4>1, SettledUnit
    <3> QED
      BY <3>1, <3>2
  <2>5. \A b : b \in SettledBlocks' <=> b \in SettledBlocks /\ b # B
    <3>1. \A b : b \in SettledBlocks' => b \in SettledBlocks /\ b # B
      BY <1>1, <1>2, <1>4, <2>2, SettledBlock
    <3> QED
      BY <1>7, <3>1
  <2> QED
    BY <2>4, <2>5
<1>20. BitsKept'
  <2>1. SUFFICES ASSUME torn \cap {"choice", "word", "reused"} = {}
                 PROVE  SettledBitmap' = UNION {Extent(a) : a \in SettledBlocks'}
    BY <1>1 DEF BitsKept, Whole!ExactAccounting, Whole!Extent, Extent
  <2>2. SettledBitmap = UNION {Extent(a) : a \in SettledBlocks}
    BY <1>1, <2>1, Exact DEF HeapInductive, HeapInvariant, BitsKept
  <2>3. \A a \in SettledBlocks : a # B => Apart(a, B)
    <3>1. /\ \A a \in blocks : Apart(a, B)
          /\ \A e \in In(Setting) \cup In(Clearing) : e # c => Apart(BlockOf(e), B)
      BY <1>2, <1>17, <2>1 DEF B
    <3> QED
      BY <3>1, SettledBlock DEF B
  <2>4. \A u : u \in SettledBitmap' <=> \E a \in SettledBlocks' : u \in Extent(a)
    BY <1>3, <1>19, <2>1, <2>2, <2>3 DEF Apart
  <2> QED
    BY <2>4
<1>21. HeapInductive'
  BY <1>4, <1>8, <1>9, <1>10, <1>11, <1>13, <1>14, <1>15, <1>16, <1>18, <1>20
     DEF HeapInductive, HeapInvariant
<1> QED
  BY <1>1, <1>3, <1>19, <1>21 DEF B

-----------------------------------------------------------------------------
(* Calls that no tick hits. *)

LEMMA SmallestOf ==
    ASSUME NEW S, S \subseteq Nat, S # {}
    PROVE  \E m \in S : \A k \in S : m <= k
<1> DEFINE R == OpToRel(<, Nat)
<1>1. IsWellFoundedOn(R, Nat)
  BY NatLessThanWellFounded, Zenon
<1>2. \A m, k \in Nat : k < m => <<k, m>> \in R
  BY DEF OpToRel
<1> HIDE DEF R
<1>3. PICK m \in S : \A k \in S : ~(<<k, m>> \in R)
  BY <1>1, WFMin
<1>4. \A k \in S : ~(k < m) /\ k \in Nat /\ m \in Nat
  BY <1>2, <1>3
<1> QED
  BY <1>4

\* Min and Max of what the model takes them of.
LEMMA MinOf ==
    ASSUME NEW S, S \subseteq Nat, S # {}
    PROVE  Min(S) \in S /\ \A k \in S : Min(S) <= k
<1>1. \E m \in S : \A k \in S : m <= k
  BY SmallestOf
<1> QED
  BY <1>1 DEF Min

LEMMA MaxOf ==
    ASSUME NEW S, NEW N \in Nat, S \subseteq 0 .. N, S # {}
    PROVE  Max(S) \in S /\ \A k \in S : k <= Max(S)
<1> DEFINE Above == {m \in Nat : \A k \in S : k <= m}
<1>1. Above \subseteq Nat /\ Above # {}
  <2>1. N \in Above
    OBVIOUS
  <2> QED
    BY <2>1
<1>2. PICK m \in Above : \A k \in Above : m <= k
  BY <1>1, SmallestOf
<1>3. m \in Nat /\ \A k \in S : k <= m /\ k \in Nat
  BY <1>2
<1>4. m \in S
  <2>1. SUFFICES ASSUME m \notin S PROVE FALSE
    OBVIOUS
  <2>2. \A k \in S : k <= m - 1
    BY <1>3, <2>1
  <2>3. m - 1 \in Nat
    <3>1. PICK k \in S : TRUE
      OBVIOUS
    <3>2. k \in Nat /\ k <= m - 1 /\ m \in Nat
      BY <1>3, <2>2
    <3> QED
      BY <3>2
  <2>4. m - 1 \in Above
    BY <2>2, <2>3
  <2> QED
    BY <1>2, <1>3, <2>4
<1>5. \E x \in S : \A y \in S : x >= y
  BY <1>3, <1>4
<1> HIDE DEF Above
<1>6. Max(S) \in S /\ \A y \in S : Max(S) >= y
  BY <1>5 DEF Max
<1>7. \A y \in S : y \in Int
  OBVIOUS
<1> QED
  BY <1>6, <1>7

\* A start that the search can return has a row ahead of it that long.
LEMMA StartFits ==
    ASSUME NEW n \in Sizes, NEW s \in Starts(n)
    PROVE  /\ s \in Units /\ s + n <= NUM_UNITS
           /\ Max(Run(s, n)) \in Nat /\ s + n <= Max(Run(s, n)) + 1
<1> DEFINE R == Run(s, n)
           m == Max(R)
<1>1. s \in Units /\ Cardinality(R) = n /\ R \subseteq s .. NUM_UNITS - 1
  BY Sized DEF Starts, Visited, Run
<1>2. n \in Nat /\ n >= 1 /\ s \in Nat /\ NUM_UNITS \in Nat /\ R \subseteq 0 .. NUM_UNITS
  BY <1>1, Sized
<1> HIDE DEF R
<1>3. R # {}
  BY <1>1, <1>2, FS_EmptySet
<1>4. m \in R /\ \A k \in R : k <= m
  BY <1>2, <1>3, MaxOf
<1> HIDE DEF m
<1>5. m \in s .. NUM_UNITS - 1 /\ R \subseteq s .. m
  BY <1>1, <1>2, <1>4
<1>6. IsFiniteSet(s .. m) /\ Cardinality(s .. m) = m - s + 1
  BY <1>2, <1>5, FS_Interval
<1>7. n <= m - s + 1
  <2>1. Cardinality(R) <= Cardinality(s .. m)
    BY <1>5, <1>6, FS_Subset
  <2> QED
    BY <1>1, <1>6, <2>1
<1>8. s \in Units /\ s + n <= NUM_UNITS /\ m \in Nat /\ s + n <= m + 1
  BY <1>1, <1>2, <1>5, <1>7
<1> QED
  BY <1>8 DEF m, R

\* Searches under way are told, and nothing else happens to the calls.
LEMMA GoStale ==
    ASSUME HeapInductive, SearchesGoStale
    PROVE  /\ call' \in [Caller -> Call] /\ LocalsFit'
           /\ In(Setting)' = In(Setting) /\ In(Clearing)' = In(Clearing)
           /\ \A d \in Caller : /\ call'[d].n = call[d].n /\ call'[d].start = call[d].start
                                /\ call'[d].i = call[d].i /\ call'[d].pc = call[d].pc
           /\ \A d \in In(Setting) : ToMark(d)' = ToMark(d)
           /\ \A d \in In(Clearing) : Unmarked(d)' = Unmarked(d)
           /\ \A d \in In(Setting) \cup In(Clearing) : BlockOf(d)' = BlockOf(d)
<1>1. call' = [d \in Caller |-> [call[d] EXCEPT !.changed = @ \/ d \in In(Searching)]]
  BY DEF SearchesGoStale
<1>2. ASSUME NEW d \in Caller
      PROVE  /\ call'[d] \in Call /\ CallFits(call'[d])
             /\ call'[d].n = call[d].n /\ call'[d].start = call[d].start
             /\ call'[d].i = call[d].i /\ call'[d].pc = call[d].pc
  <2>1. call'[d] = [call[d] EXCEPT !.changed = @ \/ d \in In(Searching)]
    BY <1>1
  <2>2. call[d] \in Call /\ CallFits(call[d])
    BY Typed
  <2>3. /\ call'[d] \in Call /\ call'[d].count = call[d].count
        /\ call'[d].n = call[d].n /\ call'[d].start = call[d].start
        /\ call'[d].i = call[d].i /\ call'[d].pc = call[d].pc
    BY <2>1, <2>2 DEF Call
  <2>4. CallFits(call'[d])
    BY <2>2, <2>3 DEF CallFits
  <2> QED
    BY <2>3, <2>4
<1>3. call' \in [Caller -> Call]
  <2>1. \A d \in Caller : call'[d] \in Call
    BY <1>2
  <2>2. call' = [d \in Caller |-> call'[d]]
    BY <1>1
  <2> QED
    BY <2>1, <2>2
<1>4. LocalsFit'
  BY <1>2 DEF LocalsFit
<1>5. In(Setting)' = In(Setting) /\ In(Clearing)' = In(Clearing)
  BY <1>2 DEF In
<1>6. \A d \in In(Setting) \cup In(Clearing) :
        call'[d].n = call[d].n /\ call'[d].start = call[d].start /\ call'[d].i = call[d].i
  BY <1>2 DEF In
<1>7. /\ \A d \in In(Setting) : ToMark(d)' = ToMark(d)
      /\ \A d \in In(Clearing) : Unmarked(d)' = Unmarked(d)
      /\ \A d \in In(Setting) \cup In(Clearing) : BlockOf(d)' = BlockOf(d)
  BY <1>6 DEF ToMark, Unmarked, BlockOf
<1> QED
  BY <1>2, <1>3, <1>4, <1>5, <1>7

LEMMA MaskedAllocEffect ==
    ASSUME HeapInductive, NEW n \in Sizes, MaskedAlloc(n)
    PROVE  \E b \in Block, last \in Nat :
              /\ b = [start |-> Min(Starts(n)), units |-> n] /\ Starts(n) # {}
              /\ b.start + b.units <= last + 1 /\ b.start + b.units <= NUM_UNITS
              /\ ~corrupt /\ torn \cap Damage = {}
              /\ bitmap' = bitmap \cup Extent(b) /\ blocks' = blocks \cup {b} /\ latest' = {b}
              /\ header' = [header EXCEPT ![b.start] = n] /\ b.units = n
              /\ torn' = torn \cup Incidents(b, last, FALSE)
                              \cup {x \in {"reused"} : StillRead(b) # {}}
              /\ corrupt' = (Taken(b) \/ StillRead(b) \ {b.start} # {})
<1> DEFINE b == [start |-> Min(Starts(n)), units |-> n]
<1>1. /\ ~corrupt /\ torn \cap Damage = {} /\ Starts(n) # {}
      /\ bitmap' = bitmap \cup Extent(b) /\ blocks' = blocks \cup {b} /\ latest' = {b}
  BY DEF MaskedAlloc, MayBegin, MemAlloc
<1>2. /\ header' = [header EXCEPT ![b.start] = n]
      /\ torn' = torn \cup Incidents(b, Max(Run(b.start, n)), FALSE)
                      \cup {x \in {"reused"} : StillRead(b) # {}}
      /\ corrupt' = (Taken(b) \/ StillRead(b) \ {b.start} # {})
  BY <1>1 DEF MaskedAlloc
<1>3. b.start = Min(Starts(n)) /\ b.units = n
  OBVIOUS
<1>4. b.start \in Starts(n)
  <2>1. Starts(n) \subseteq Nat
    BY Sized DEF Starts, Visited
  <2> QED
    BY <1>1, <1>3, <2>1, MinOf
<1>5. /\ b.start \in Units /\ b.start + n <= NUM_UNITS
      /\ Max(Run(b.start, n)) \in Nat /\ b.start + n <= Max(Run(b.start, n)) + 1
  BY <1>4, StartFits
<1>6. b \in Block
  BY <1>5 DEF Block
<1> QED
  BY <1>1, <1>2, <1>3, <1>5, <1>6

\* A whole mem_alloc is the search, the bits, the header and the return at once.
LEMMA MaskedAllocKeeps ==
    ASSUME HeapInductive, NEW n \in Sizes, MaskedAlloc(n)
    PROVE  /\ HeapInductive'
           /\ \E b \in Block :
                /\ b = [start |-> Min(Starts(n)), units |-> n] /\ latest' = {b}
                /\ \A u : u \in SettledBitmap' <=> u \in SettledBitmap \/ u \in Extent(b)
                /\ SettledBlocks' = SettledBlocks \cup {b}
<1>1. PICK b \in Block, last \in Nat :
              /\ b = [start |-> Min(Starts(n)), units |-> n] /\ Starts(n) # {}
              /\ b.start + b.units <= last + 1 /\ b.start + b.units <= NUM_UNITS
              /\ ~corrupt /\ torn \cap Damage = {}
              /\ bitmap' = bitmap \cup Extent(b) /\ blocks' = blocks \cup {b} /\ latest' = {b}
              /\ header' = [header EXCEPT ![b.start] = n] /\ b.units = n
              /\ torn' = torn \cup Incidents(b, last, FALSE)
                              \cup {x \in {"reused"} : StillRead(b) # {}}
              /\ corrupt' = (Taken(b) \/ StillRead(b) \ {b.start} # {})
  BY MaskedAllocEffect
<1>2. SearchesGoStale
  BY DEF MaskedAlloc
<1>3. /\ call' \in [Caller -> Call] /\ LocalsFit'
      /\ In(Setting)' = In(Setting) /\ In(Clearing)' = In(Clearing)
      /\ \A d \in Caller : /\ call'[d].n = call[d].n /\ call'[d].start = call[d].start
                           /\ call'[d].i = call[d].i /\ call'[d].pc = call[d].pc
      /\ \A d \in In(Setting) : ToMark(d)' = ToMark(d)
      /\ \A d \in In(Clearing) : Unmarked(d)' = Unmarked(d)
      /\ \A d \in In(Setting) \cup In(Clearing) : BlockOf(d)' = BlockOf(d)
  BY <1>2, GoStale
<1>4. \A u : u \in SettledBitmap' <=> u \in SettledBitmap \/ u \in Extent(b)
  BY <1>1, <1>3, SettledUnit
<1>5. SettledBlocks' = SettledBlocks \cup {b}
  <2>1. \A x : x \in SettledBlocks' <=> x \in SettledBlocks \/ x = b
    BY <1>1, <1>3, SettledBlock
  <2> QED
    BY <2>1
<1>6. /\ ~Taken(b) =>
                /\ \A a \in blocks : Apart(a, b)
                /\ \A d \in In(Setting) : Apart(BlockOf(d), b)
      /\ /\ ~Taken(b) /\ torn \cap {"choice", "word", "reused"} = {}
         /\ "choice" \notin Incidents(b, last, FALSE)
         => /\ \A d \in In(Clearing) : Apart(BlockOf(d), b)
            /\ Extent(b) \cap SettledBitmap = {}
      /\ Taken(b) /\ torn \cap Damage = {} =>
                \/ "crossed" \in Incidents(b, last, FALSE)
                \/ "choice" \in Incidents(b, last, FALSE)
      /\ Incidents(b, last, FALSE) \subseteq {"crossed", "choice", "between"}
  BY <1>1, Chosen
<1>7. /\ torn \subseteq torn'
      /\ torn' \subseteq torn \cup {"crossed", "choice", "between", "reused"}
      /\ "choice" \notin torn' => "choice" \notin Incidents(b, last, FALSE)
      /\ "reused" \notin torn' => StillRead(b) = {}
      /\ torn \cap {"choice", "word", "reused"} = {}
  BY <1>1, <1>6 DEF Damage
<1>8. /\ header \in [Units -> Sizes \cup {0}] /\ b.start \in Units /\ b.start \in Extent(b)
      /\ blocks \subseteq Block /\ b.start \in Nat /\ n \in Nat
  BY <1>1, Typed, Sized, ApartStarts DEF Block
<1>9. header'[b.start] = n /\ \A u \in Units : u # b.start => header'[u] = header[u]
  BY <1>1, <1>8
<1>10. LatestIsOne'
  BY <1>1, <1>5 DEF LatestIsOne
<1>11. BlocksFit'
  BY <1>1 DEF HeapInductive, BlocksFit
<1>12. HeadersFit'
  <2>1. \A u \in Units : u + header[u] <= NUM_UNITS
    BY DEF HeapInductive, HeadersFit
  <2>2. \A u \in Units : u + header'[u] <= NUM_UNITS
    BY <1>1, <1>9, <2>1
  <2> QED
    BY <2>2 DEF HeadersFit
<1>13. PreemptTypeOK'
  <2>1. torn' \subseteq Damage \cup {"between"}
    BY <1>7, Typed DEF Damage
  <2>2. bitmap' \subseteq Units
    <3>1. Extent(b) \subseteq Units
      BY <1>1, <1>8, Sized DEF Extent
    <3> QED
      BY <1>1, <3>1, Typed
  <2>3. header' \in [Units -> Sizes \cup {0}] /\ blocks' \subseteq Block
    BY <1>1, <1>8
  <2> QED
    BY <1>3, <1>10, <2>1, <2>2, <2>3, TypedAfter
<1>14. ASSUME ~corrupt', NEW a \in blocks PROVE Apart(a, b) /\ a.start # b.start
  <2>1. Apart(a, b)
    BY <1>1, <1>6, <1>14
  <2> QED
    BY <1>8, <1>14, <2>1, ApartStarts
<1>15. HeadersKept'
  <2>1. SUFFICES ASSUME ~corrupt', "reused" \notin torn', NEW a \in blocks'
                 PROVE  header'[a.start] = a.units
    BY DEF HeadersKept
  <2>2. CASE a = b
    BY <1>1, <1>9, <2>2
  <2>3. CASE a \in blocks
    <3>1. header[a.start] = a.units
      BY <1>1, <1>7, <2>1, <2>3 DEF HeapInductive, HeapInvariant, HeadersKept
    <3>2. a.start # b.start /\ a.start \in Units
      BY <1>8, <1>14, <2>1, <2>3 DEF Block
    <3> QED
      BY <1>9, <3>1, <3>2
  <2> QED
    BY <1>1, <2>1, <2>2, <2>3
<1>16. CorruptOnlyIfTorn'
  BY <1>1, <1>6 DEF CorruptOnlyIfTorn, Damage
<1>17. BitsKept'
  <2>1. SettledBitmap = UNION {Extent(a) : a \in SettledBlocks}
    BY <1>1, <1>7, Exact DEF HeapInductive, HeapInvariant, BitsKept
  <2>2. SettledBitmap' = UNION {Extent(a) : a \in SettledBlocks'}
    BY <1>4, <1>5, <2>1
  <2> QED
    BY <2>2 DEF BitsKept, Whole!ExactAccounting, Whole!Extent, Extent
<1>18. OwnersApart'
  <2>1. /\ \A a, e \in blocks : a # e => Apart(a, e)
        /\ \A a \in blocks, d \in In(Setting) : Apart(a, BlockOf(d))
        /\ \A d, e \in In(Setting) : d # e => Apart(BlockOf(d), BlockOf(e))
    BY <1>1 DEF HeapInductive, OwnersApart
  <2>2. ASSUME ~corrupt'
        PROVE  /\ \A a, e \in blocks' : a # e => Apart(a, e)
               /\ \A a \in blocks', d \in In(Setting) : Apart(a, BlockOf(d))
    <3>1. /\ \A a \in blocks : Apart(a, b) /\ Apart(b, a)
          /\ \A d \in In(Setting) : Apart(b, BlockOf(d))
      BY <1>1, <1>6, <2>2 DEF Apart
    <3> QED
      BY <1>1, <2>1, <3>1
  <2> QED
    BY <1>3, <2>1, <2>2 DEF OwnersApart
<1>19. ReleasesKnowSize'
  <2>1. SUFFICES ASSUME ~corrupt', "reused" \notin torn'
                 PROVE  /\ \A d \in In(Clearing) :
                             /\ header'[call[d].start] = call[d].n
                             /\ call[d].i <= call[d].start + call[d].n
                             /\ call[d].pc = "clear_store" => call[d].i < call[d].start + call[d].n
                             /\ \A a \in blocks' : a.start # call[d].start
                        /\ \A d, e \in In(Clearing) : d # e => call[d].start # call[e].start
    <3>1. \A d \in In(Clearing) :
             /\ call'[d].n = call[d].n /\ call'[d].start = call[d].start
             /\ call'[d].i = call[d].i /\ call'[d].pc = call[d].pc
      BY <1>3 DEF In
    <3> QED
      BY <1>3, <2>1, <3>1 DEF ReleasesKnowSize
  <2>2. /\ \A d \in In(Clearing) :
             /\ header[call[d].start] = call[d].n
             /\ call[d].i <= call[d].start + call[d].n
             /\ call[d].pc = "clear_store" => call[d].i < call[d].start + call[d].n
             /\ \A a \in blocks : a.start # call[d].start
        /\ \A d, e \in In(Clearing) : d # e => call[d].start # call[e].start
    BY <1>1, <1>7 DEF HeapInductive, ReleasesKnowSize
  <2>3. \A d \in In(Clearing) : call[d].start # b.start
    BY <1>7, <1>8, <2>1 DEF StillRead
  <2>4. \A d \in In(Clearing) : call[d].start \in Units
    BY Typed DEF In
  <2> QED
    BY <1>1, <1>9, <2>2, <2>3, <2>4
<1>20. ReleasesApart'
  <2>1. SUFFICES ASSUME ~corrupt', torn' \cap {"choice", "word", "reused"} = {},
                        NEW d \in In(Clearing)
                 PROVE  /\ Unmarked(d)' \cap bitmap' = {}
                        /\ \A a \in blocks' : Apart(a, BlockOf(d)')
                        /\ \A e \in In(Setting)' \cup In(Clearing)' :
                                d # e => Apart(BlockOf(e)', BlockOf(d)')
    BY <1>3 DEF ReleasesApart
  <2>2. /\ Unmarked(d) \cap bitmap = {}
        /\ \A a \in blocks : Apart(a, BlockOf(d))
        /\ \A e \in In(Setting) \cup In(Clearing) : d # e => Apart(BlockOf(e), BlockOf(d))
    BY <1>1, <1>7 DEF HeapInductive, ReleasesApart
  <2>3. Apart(b, BlockOf(d)) /\ Extent(b) \cap SettledBitmap = {}
    BY <1>1, <1>6, <1>7, <2>1 DEF Apart
  <2>4. Unmarked(d) \cap Extent(b) = {}
    BY <2>1, <2>3, SettledUnit
  <2>5. Unmarked(d)' = Unmarked(d) /\ BlockOf(d)' = BlockOf(d)
    BY <1>3, <2>1
  <2> QED
    BY <1>1, <1>3, <2>2, <2>3, <2>4, <2>5
<1>21. HeapInductive'
  BY <1>3, <1>10, <1>11, <1>12, <1>13, <1>15, <1>16, <1>17, <1>18, <1>19, <1>20
     DEF HeapInductive, HeapInvariant
<1> QED
  BY <1>1, <1>4, <1>5, <1>21

\* A whole mem_free takes a block from its owner and leaves the others alone.
LEMMA MaskedFreeKeeps ==
    ASSUME HeapInductive, NEW b \in blocks, MaskedFree(b)
    PROVE  /\ HeapInductive'
           /\ SettledBitmap' = SettledBitmap \ Extent(b)
           /\ b \in SettledBlocks /\ SettledBlocks' = SettledBlocks \ {b}
           /\ latest' = latest \ {b}
<1>1. /\ ~corrupt /\ torn \cap Damage = {}
      /\ bitmap' = bitmap \ Extent(b) /\ blocks' = blocks \ {b} /\ latest' = latest \ {b}
      /\ header' = [header EXCEPT ![b.start] = 0]
      /\ SearchesGoStale /\ torn' = torn /\ corrupt' = corrupt
  BY DEF MaskedFree, MayBegin, MemFree
<1>2. /\ call' \in [Caller -> Call] /\ LocalsFit'
      /\ In(Setting)' = In(Setting) /\ In(Clearing)' = In(Clearing)
      /\ \A d \in Caller : /\ call'[d].n = call[d].n /\ call'[d].start = call[d].start
                           /\ call'[d].i = call[d].i /\ call'[d].pc = call[d].pc
      /\ \A d \in In(Setting) : ToMark(d)' = ToMark(d)
      /\ \A d \in In(Clearing) : Unmarked(d)' = Unmarked(d)
      /\ \A d \in In(Setting) \cup In(Clearing) : BlockOf(d)' = BlockOf(d)
  BY <1>1, GoStale
<1>3. torn \cap {"choice", "word", "reused"} = {} /\ "reused" \notin torn
  BY <1>1 DEF Damage
<1>4. /\ header \in [Units -> Sizes \cup {0}] /\ blocks \subseteq Block
      /\ b \in Block /\ b.start \in Units /\ b.start \in Nat
  BY Typed, Sized DEF Block
<1>5. header'[b.start] = 0 /\ \A u \in Units : u # b.start => header'[u] = header[u]
  BY <1>1, <1>4
<1>6. /\ \A a, e \in blocks : a # e => Apart(a, e)
      /\ \A a \in blocks, d \in In(Setting) : Apart(a, BlockOf(d))
      /\ \A d, e \in In(Setting) : d # e => Apart(BlockOf(d), BlockOf(e))
  BY <1>1 DEF HeapInductive, OwnersApart
<1>7. /\ \A d \in In(Clearing) : Unmarked(d) \cap bitmap = {}
      /\ \A d \in In(Clearing) : \A a \in blocks : Apart(a, BlockOf(d))
      /\ \A d \in In(Clearing) : \A e \in In(Setting) \cup In(Clearing) :
           d # e => Apart(BlockOf(e), BlockOf(d))
  BY <1>1, <1>3 DEF HeapInductive, ReleasesApart
<1>8. /\ \A d \in In(Clearing) :
           /\ header[call[d].start] = call[d].n
           /\ call[d].i <= call[d].start + call[d].n
           /\ call[d].pc = "clear_store" => call[d].i < call[d].start + call[d].n
           /\ \A a \in blocks : a.start # call[d].start
      /\ \A d, e \in In(Clearing) : d # e => call[d].start # call[e].start
  BY <1>1, <1>3 DEF HeapInductive, ReleasesKnowSize
<1>9. /\ \A a \in blocks : a # b => Apart(a, b) /\ a.start # b.start
      /\ \A d \in In(Setting) \cup In(Clearing) : Apart(b, BlockOf(d)) /\ BlockOf(d) # b
  <2>1. /\ \A a \in blocks : a # b => Apart(a, b)
        /\ \A d \in In(Setting) \cup In(Clearing) : Apart(b, BlockOf(d))
    BY <1>6, <1>7
  <2>2. ~Apart(b, b)
    BY <1>4, ApartStarts
  <2>3. \A d \in In(Setting) \cup In(Clearing) : BlockOf(d) # b
    BY <2>1, <2>2
  <2>4. \A a \in blocks : a # b => a.start # b.start
    BY <1>4, <2>1, ApartStarts
  <2> QED
    BY <2>1, <2>3, <2>4
<1>10. SettledBitmap' = SettledBitmap \ Extent(b)
  <2>1. /\ \A d \in In(Setting) : ToMark(d) \subseteq Extent(BlockOf(d))
        /\ \A d \in In(Clearing) : Unmarked(d) \subseteq Extent(BlockOf(d))
    BY <1>1, <1>3, PartOfBlock
  <2>2. /\ \A d \in In(Setting) : ToMark(d) \cap Extent(b) = {}
        /\ \A d \in In(Clearing) : Unmarked(d) \cap Extent(b) = {}
    BY <1>9, <2>1 DEF Apart
  <2>3. \A u : u \in SettledBitmap' <=> u \in SettledBitmap /\ u \notin Extent(b)
    BY <1>1, <1>2, <2>2, SettledUnit
  <2> QED
    BY <2>3
<1>11. SettledBlocks' = SettledBlocks \ {b}
  <2>1. \A a : a \in SettledBlocks' <=> a \in SettledBlocks /\ a # b
    BY <1>1, <1>2, <1>9, SettledBlock
  <2> QED
    BY <2>1
<1>12. b \in SettledBlocks
  BY SettledBlock
<1>13. LatestIsOne'
  BY <1>1, <1>11 DEF HeapInductive, LatestIsOne
<1>14. BlocksFit'
  BY <1>1 DEF HeapInductive, BlocksFit
<1>15. HeadersFit'
  <2>1. \A u \in Units : u + header[u] <= NUM_UNITS
    BY DEF HeapInductive, HeadersFit
  <2>2. \A u \in Units : u + header'[u] <= NUM_UNITS
    BY <1>5, <2>1, Sized
  <2> QED
    BY <2>2 DEF HeadersFit
<1>16. PreemptTypeOK'
  <2>1. /\ torn' \subseteq Damage \cup {"between"} /\ bitmap' \subseteq Units
        /\ blocks' \subseteq Block /\ header' \in [Units -> Sizes \cup {0}]
    BY <1>1, <1>4, Typed
  <2> QED
    BY <1>2, <1>13, <2>1, TypedAfter
<1>17. HeadersKept'
  <2>1. SUFFICES ASSUME NEW a \in blocks' PROVE header'[a.start] = a.units
    BY DEF HeadersKept
  <2>2. a \in blocks /\ a # b
    BY <1>1, <2>1
  <2>3. header[a.start] = a.units
    BY <1>1, <1>3, <2>2 DEF HeapInductive, HeapInvariant, HeadersKept
  <2>4. a.start # b.start /\ a.start \in Units
    BY <1>4, <1>9, <2>2 DEF Block
  <2> QED
    BY <1>5, <2>3, <2>4
<1>18. CorruptOnlyIfTorn'
  BY <1>1 DEF CorruptOnlyIfTorn
<1>19. BitsKept'
  <2>1. SettledBitmap = UNION {Extent(a) : a \in SettledBlocks}
    BY <1>1, <1>3, Exact DEF HeapInductive, HeapInvariant, BitsKept
  <2>2. \A a \in SettledBlocks : a # b => Apart(a, b)
    <3>1. \A d \in In(Setting) \cup In(Clearing) : Apart(BlockOf(d), b)
      BY <1>9 DEF Apart
    <3> QED
      BY <1>9, <3>1, SettledBlock
  <2>3. \A u : u \in SettledBitmap' <=> \E a \in SettledBlocks' : u \in Extent(a)
    BY <1>10, <1>11, <1>12, <2>1, <2>2 DEF Apart
  <2>4. SettledBitmap' = UNION {Extent(a) : a \in SettledBlocks'}
    BY <2>3
  <2> QED
    BY <2>4 DEF BitsKept, Whole!ExactAccounting, Whole!Extent, Extent
<1>20. OwnersApart'
  BY <1>1, <1>2, <1>6 DEF OwnersApart
<1>21. ReleasesKnowSize'
  <2>1. /\ \A d \in In(Clearing) : d \in Caller /\ call[d].start \in Units
        /\ \A d \in In(Clearing) : b.start # call[d].start
    BY <1>8, Typed DEF In
  <2>2. \A d \in In(Clearing) :
             /\ call'[d].n = call[d].n /\ call'[d].start = call[d].start
             /\ call'[d].i = call[d].i /\ call'[d].pc = call[d].pc
             /\ header'[call[d].start] = header[call[d].start]
    BY <1>2, <1>5, <2>1
  <2>3. /\ \A d \in In(Clearing) :
             /\ header'[call'[d].start] = call'[d].n
             /\ call'[d].i <= call'[d].start + call'[d].n
             /\ call'[d].pc = "clear_store" => call'[d].i < call'[d].start + call'[d].n
             /\ \A a \in blocks' : a.start # call'[d].start
        /\ \A d, e \in In(Clearing) : d # e => call'[d].start # call'[e].start
    BY <1>1, <1>8, <2>2
  <2> QED
    BY <1>2, <2>3 DEF ReleasesKnowSize
<1>22. ReleasesApart'
  BY <1>1, <1>2, <1>7 DEF ReleasesApart
<1>23. HeapInductive'
  BY <1>2, <1>13, <1>14, <1>15, <1>16, <1>17, <1>18, <1>19, <1>20, <1>21, <1>22
     DEF HeapInductive, HeapInvariant
<1> QED
  BY <1>1, <1>10, <1>11, <1>12, <1>23

-----------------------------------------------------------------------------
(* The inductive invariant. *)

LEMMA HeapStarts ==
    ASSUME PreemptInit
    PROVE  /\ HeapInductive /\ SettledBitmap = {} /\ SettledBlocks = {} /\ latest = {}
<1>1. /\ bitmap = {} /\ blocks = {} /\ latest = {}
      /\ header = [u \in Units |-> 0] /\ call = [c \in Caller |-> Quiet]
      /\ torn = {} /\ corrupt = FALSE
  BY DEF PreemptInit, HeapInit
<1>2. Quiet \in Call /\ Quiet.pc = "idle"
  BY Sized DEF Quiet, Call
<1>3. CallFits(Quiet)
  BY <1>2 DEF CallFits, Searching, Setting, Clearing
<1>4. call \in [Caller -> Call] /\ LocalsFit
  BY <1>1, <1>2, <1>3 DEF LocalsFit
<1>5. In(Setting) = {} /\ In(Clearing) = {}
  BY <1>1, <1>2 DEF In, Setting, Clearing
<1>6. SettledBitmap = {}
  <2>1. \A u : u \notin SettledBitmap
    BY <1>1, <1>5, SettledUnit
  <2> QED
    BY <2>1
<1>7. SettledBlocks = {}
  <2>1. \A b : b \notin SettledBlocks
    BY <1>1, <1>5, SettledBlock
  <2> QED
    BY <2>1
<1>8. header \in [Units -> Sizes \cup {0}]
  BY <1>1
<1>9. PreemptTypeOK
  BY <1>1, <1>4, <1>6, <1>7, <1>8 DEF PreemptTypeOK, Whole!HeapTypeOK
<1>10. HeadersKept /\ CorruptOnlyIfTorn /\ LatestIsOne /\ BlocksFit
  BY <1>1 DEF HeadersKept, CorruptOnlyIfTorn, LatestIsOne, BlocksFit
<1>11. BitsKept
  BY <1>6, <1>7 DEF BitsKept, Whole!ExactAccounting
<1>12. HeadersFit
  <2>1. \A u \in Units : u + 0 <= NUM_UNITS
    BY Sized
  <2> QED
    BY <1>1, <2>1 DEF HeadersFit
<1>13. OwnersApart /\ ReleasesKnowSize /\ ReleasesApart
  BY <1>1, <1>5 DEF OwnersApart, ReleasesKnowSize, ReleasesApart
<1> QED
  BY <1>1, <1>4, <1>6, <1>7, <1>9, <1>10, <1>11, <1>12, <1>13 DEF HeapInductive, HeapInvariant

LEMMA HeapStutters ==
    ASSUME HeapInductive, UNCHANGED hvars
    PROVE  HeapInductive' /\ UNCHANGED Whole!heapvars
<1>1. UNCHANGED <<heapvars, header, torn, corrupt>> /\ call' = call
  BY DEF hvars
<1>2. call' \in [Caller -> Call] /\ LocalsFit'
  BY <1>1, Typed DEF LocalsFit, HeapInductive
<1>3. In(Setting)' = In(Setting) /\ In(Clearing)' = In(Clearing)
  BY <1>1 DEF In
<1>4. \A c \in In(Clearing) :
        ~corrupt /\ "reused" \notin torn /\ call'[c].pc = "clear_store" =>
            call[c].i < call[c].start + call[c].n
  BY <1>1 DEF HeapInductive, ReleasesKnowSize
<1> QED
  BY <1>1, <1>2, <1>3, <1>4, QuietKeeps

LEMMA HeapStep ==
    ASSUME HeapInductive, [PreemptNext]_hvars
    PROVE  HeapInductive'
<1>1. CASE UNCHANGED hvars
  BY <1>1, HeapStutters
<1>2. ASSUME NEW c \in Caller, NEW n \in Sizes, Alloc(c, n) PROVE HeapInductive'
  BY <1>2, AllocKeeps
<1>3. ASSUME NEW c \in Caller, NEW b \in blocks, Free(c, b) PROVE HeapInductive'
  BY <1>3, FreeKeeps
<1>4. ASSUME NEW c \in Caller, Step(c) PROVE HeapInductive'
  BY <1>4, SkipWordKeeps, EnterWordKeeps, GiveUpKeeps, UsedBitKeeps, FreeBitKeeps, FoundKeeps,
     LoadKeeps, SetStoreKeeps, ReturnKeeps, ClearStoreKeeps, FreeEndKeeps DEF Step
<1>5. ASSUME NEW n \in Sizes, MaskedAlloc(n) PROVE HeapInductive'
  BY <1>5, MaskedAllocKeeps
<1>6. ASSUME NEW b \in blocks, MaskedFree(b) PROVE HeapInductive'
  BY <1>6, MaskedFreeKeeps
<1> QED
  BY <1>1, <1>2, <1>3, <1>4, <1>5, <1>6 DEF PreemptNext

LEMMA HeapAlways == PreemptSpec => []HeapInductive
<1>1. PreemptInit => HeapInductive
  BY HeapStarts
<1>2. HeapInductive /\ [PreemptNext]_hvars => HeapInductive'
  BY HeapStep
<1> QED
  BY <1>1, <1>2, PTL DEF PreemptSpec

\* Wherever ticks land between the accesses of any number of callers, headers
\* and bits are those of the blocks and the half-done calls, and nobody's
\* memory is shared, up to the overlappings that "torn" records.
THEOREM HeapInvariantHolds == PreemptSpec => []HeapInvariant
<1>1. HeapInductive => HeapInvariant
  BY DEF HeapInductive
<1> QED
  BY <1>1, HeapAlways, PTL

-----------------------------------------------------------------------------
(* What a search finds when no bit is written while it runs. *)

LEMMA UnitsFinite ==
    ASSUME NEW S, S \subseteq Units
    PROVE  IsFiniteSet(S) /\ Cardinality(S) \in Nat
<1>1. IsFiniteSet(Units)
  BY Sized, FS_Interval
<1>2. IsFiniteSet(S)
  BY <1>1, FS_Subset
<1> QED
  BY <1>2, FS_CardinalityType

LEMMA FewerUnits ==
    ASSUME NEW S, NEW T, S \subseteq T, T \subseteq Units
    PROVE  /\ Cardinality(S) \in Nat /\ Cardinality(T) \in Nat
           /\ Cardinality(S) <= Cardinality(T)
  BY UnitsFinite, FS_Subset

\* As long as the bitmap stays, so does what there is to find.
LEMMA SameStarts ==
    ASSUME bitmap' = bitmap
    PROVE  Visited' = Visited /\ \A n : Starts(n)' = Starts(n)
<1>1. Visited' = Visited
  BY DEF Visited, FullWord
<1>2. \A s, n : Run(s, n)' = Run(s, n)
  BY <1>1 DEF Run
<1> QED
  BY <1>1, <1>2 DEF Starts

\* The other searches keep what they know.
LEMMA OthersExact ==
    ASSUME SearchesExact, NEW c \in Caller, bitmap' = bitmap,
           \A d \in Caller : d # c => call'[d] = call[d],
           c \in In(Searching)' /\ ~call'[c].changed => SearchExact(c)'
    PROVE  SearchesExact'
<1>1. SUFFICES ASSUME NEW d \in In(Searching)', d # c, ~call'[d].changed
               PROVE  SearchExact(d)'
  BY DEF SearchesExact
<1>2. d \in Caller /\ call'[d] = call[d] /\ d \in In(Searching)
  BY <1>1 DEF In
<1>3. SearchExact(d)
  BY <1>1, <1>2 DEF SearchesExact
<1>4. SearchStart(d)' = SearchStart(d) /\ Seen(d)' = Seen(d)
  BY <1>2, SameStarts DEF SearchStart, Seen
<1>5. Starts(call[d].n)' = Starts(call[d].n)
  BY <1>2, SameStarts DEF Starts, Run, Visited, FullWord
<1> QED
  BY <1>2, <1>3, <1>4, <1>5, SameStarts DEF SearchExact

\* The locals of a search, and what it has seen.
LEMMA SearchLocals ==
    ASSUME HeapInductive, NEW c \in Caller, call[c].pc \in Searching
    PROVE  /\ call[c].i \in Nat /\ call[c].start \in Nat /\ call[c].count \in Nat
           /\ call[c].n \in Sizes /\ call[c].n \in Nat /\ call[c].count < call[c].n
           /\ call[c].count > 0 => call[c].start < call[c].i
           /\ SearchStart(c) \in Nat /\ SearchStart(c) <= call[c].i
           /\ Seen(c) \subseteq Units /\ Visited \subseteq Units
<1>1. /\ call[c].i \in Nat /\ call[c].start \in Nat /\ call[c].count \in Nat
      /\ call[c].n \in Nat /\ CallFits(call[c])
  BY Typed
<1>2. /\ call[c].n \in Sizes /\ call[c].count < call[c].n
      /\ call[c].count > 0 => call[c].start + call[c].count <= call[c].i
  BY <1>1 DEF CallFits
<1>3. call[c].count > 0 => call[c].start < call[c].i
  BY <1>1, <1>2
<1>4. SearchStart(c) \in Nat /\ SearchStart(c) <= call[c].i
  BY <1>1, <1>3 DEF SearchStart
<1>5. Seen(c) \subseteq Units /\ Visited \subseteq Units
  BY DEF Seen, Visited
<1> QED
  BY <1>1, <1>2, <1>3, <1>4, <1>5

\* A visited unit that the search has reached lies in the row of every start
\* that it has not passed.
LEMMA ReachedInRun ==
    ASSUME HeapInductive, NEW c \in Caller, call[c].pc \in Searching, SearchExact(c),
           NEW s \in Nat, SearchStart(c) <= s, NEW j \in Visited, s <= j, j <= call[c].i
    PROVE  j \in Run(s, call[c].n)
<1> DEFINE before == {k \in {i \in Visited : s <= i} : k < j}
<1>1. /\ call[c].i \in Nat /\ SearchStart(c) \in Nat /\ call[c].count \in Nat
      /\ call[c].n \in Nat /\ call[c].count < call[c].n /\ Seen(c) \subseteq Units
  BY SearchLocals
<1>2. \A k \in Visited : k \in Nat
  BY Sized DEF Visited
<1>3. before \subseteq Seen(c)
  BY <1>1, <1>2 DEF Seen
<1>4. Cardinality(before) \in Nat /\ Cardinality(before) <= call[c].count
  BY <1>1, <1>3, FewerUnits DEF SearchExact
<1>5. Cardinality(before) < call[c].n
  BY <1>1, <1>4
<1> QED
  BY <1>5 DEF Run

LEMMA AllocExact ==
    ASSUME HeapInductive, SearchesExact, NEW c \in Caller, NEW n \in Sizes, Alloc(c, n)
    PROVE  SearchesExact'
<1>1. /\ bitmap' = bitmap
      /\ call' = [call EXCEPT ![c] = [Quiet EXCEPT !.pc = "word", !.n = n]]
  BY DEF Alloc, heapvars
<1>2. /\ \A d \in Caller : d # c => call'[d] = call[d]
      /\ call'[c].pc = "word" /\ call'[c].n = n /\ call'[c].i = 0 /\ call'[c].count = 0
  BY <1>1, Typed DEF Quiet
<1>3. SearchStart(c)' = 0 /\ Seen(c)' = {}
  <2>1. SearchStart(c)' = 0
    BY <1>2 DEF SearchStart
  <2>2. \A j \in Visited' : j \in Nat
    BY Sized DEF Visited
  <2> QED
    BY <1>2, <2>1, <2>2 DEF Seen
<1>4. \A s \in Starts(n)' : 0 <= s
  BY Sized DEF Starts, Visited
<1>5. SearchExact(c)'
  BY <1>2, <1>3, <1>4, FS_EmptySet DEF SearchExact
<1> QED
  BY <1>1, <1>2, <1>5, OthersExact

\* No unit of a full word is visited.
LEMMA SkipWordExact ==
    ASSUME HeapInductive, SearchesExact, NEW c \in Caller, SkipWord(c)
    PROVE  SearchesExact'
<1> DEFINE i == call[c].i
<1>1. /\ call[c].pc = "word" /\ i < NUM_UNITS /\ FullWord(i \div WORD)
      /\ bitmap' = bitmap /\ call' = [call EXCEPT ![c].i = @ + WORD]
  BY DEF SkipWord, At, heapvars
<1>2. /\ \A d \in Caller : d # c => call'[d] = call[d]
      /\ call'[c].pc = "word" /\ call'[c].n = call[c].n /\ call'[c].i = i + WORD
      /\ call'[c].count = call[c].count /\ call'[c].start = call[c].start
      /\ call'[c].changed = call[c].changed
  BY <1>1, Typed DEF Call
<1>3. i \in Nat /\ i % WORD = 0 /\ i < WORD * BITMAP_WORDS
  BY <1>1, Typed DEF CallFits, Searching, NUM_UNITS
<1>4. \A j \in i .. i + WORD - 1 : j \div WORD = i \div WORD
  BY <1>3, HeapAssumption, NextWord
<1>5. \A j \in Visited : j \in Nat /\ (j >= i => j >= i + WORD)
  <2>1. ASSUME NEW j \in Visited, j >= i PROVE j >= i + WORD
    <3>1. j \in Nat /\ ~FullWord(j \div WORD)
      BY Sized DEF Visited
    <3>2. j \notin i .. i + WORD - 1
      BY <1>1, <1>4, <3>1
    <3>3. WORD \in Nat
      BY HeapAssumption
    <3> QED
      BY <1>3, <2>1, <3>1, <3>2, <3>3
  <2>2. \A j \in Visited : j \in Nat
    BY Sized DEF Visited
  <2> QED
    BY <2>1, <2>2
<1>6. ASSUME ~call'[c].changed PROVE SearchExact(c)'
  <2>1. SearchExact(c) /\ c \in Caller /\ call[c].pc \in Searching
    BY <1>1, <1>2, <1>6 DEF SearchesExact, In, Searching
  <2>2. /\ call[c].start \in Nat /\ call[c].count \in Nat
        /\ call[c].count > 0 => call[c].start < i
        /\ SearchStart(c) \in Nat /\ SearchStart(c) <= i
    BY <2>1, SearchLocals
  <2>3. Visited' = Visited /\ Starts(call[c].n)' = Starts(call[c].n)
    BY <1>1, <1>2, SameStarts DEF Starts, Run, Visited, FullWord
  <2>4. Seen(c)' = Seen(c)
    <3>1. CASE call[c].count = 0
      <4>1. SearchStart(c)' = i + WORD /\ SearchStart(c) = i
        BY <1>2, <3>1 DEF SearchStart
      <4>2. Seen(c)' = {} /\ Seen(c) = {}
        BY <1>2, <1>3, <1>5, <2>3, <4>1, HeapAssumption DEF Seen
      <4> QED
        BY <4>2
    <3>2. CASE call[c].count # 0
      <4>1. SearchStart(c)' = SearchStart(c)
        BY <1>2, <3>2 DEF SearchStart
      <4>2. \A j \in Visited : j < i <=> j < i + WORD
        BY <1>3, <1>5, HeapAssumption
      <4> QED
        BY <1>2, <2>3, <4>1, <4>2 DEF Seen
    <3> QED
      BY <3>1, <3>2
  <2>5. \A s \in Starts(call[c].n) : SearchStart(c)' <= s
    <3>1. \A s \in Starts(call[c].n) : SearchStart(c) <= s /\ s \in Visited
      BY <2>1 DEF SearchExact, Starts
    <3>2. CASE call[c].count = 0
      <4>1. SearchStart(c)' = i + WORD /\ SearchStart(c) = i
        BY <1>2, <3>2 DEF SearchStart
      <4> QED
        BY <1>3, <1>5, <3>1, <4>1
    <3>3. CASE call[c].count # 0
      BY <1>2, <3>1, <3>3 DEF SearchStart
    <3> QED
      BY <3>2, <3>3
  <2> QED
    BY <1>1, <1>2, <2>1, <2>3, <2>4, <2>5 DEF SearchExact
<1> QED
  BY <1>1, <1>2, <1>6, OthersExact

LEMMA EnterWordExact ==
    ASSUME HeapInductive, SearchesExact, NEW c \in Caller, EnterWord(c)
    PROVE  SearchesExact'
<1>1. /\ call[c].pc = "word" /\ call[c].i < NUM_UNITS /\ ~FullWord(call[c].i \div WORD)
      /\ bitmap' = bitmap /\ call' = [call EXCEPT ![c].pc = "bit"]
  BY DEF EnterWord, At, heapvars
<1>2. /\ \A d \in Caller : d # c => call'[d] = call[d]
      /\ call'[c].n = call[c].n /\ call'[c].i = call[c].i
      /\ call'[c].count = call[c].count /\ call'[c].start = call[c].start
      /\ call'[c].changed = call[c].changed
  BY <1>1, Typed DEF Call
<1>3. call[c].i \in Visited
  BY <1>1, Typed, Sized DEF Visited
<1>4. ASSUME ~call'[c].changed PROVE SearchExact(c)'
  <2>1. SearchExact(c)
    BY <1>1, <1>2, <1>4 DEF SearchesExact, In, Searching
  <2>2. Visited' = Visited /\ Starts(call[c].n)' = Starts(call[c].n)
    BY <1>1, <1>2, SameStarts DEF Starts, Run, Visited, FullWord
  <2>3. SearchStart(c)' = SearchStart(c) /\ Seen(c)' = Seen(c)
    BY <1>2, <2>2 DEF SearchStart, Seen
  <2> QED
    BY <1>1, <1>2, <1>3, <2>1, <2>2, <2>3 DEF SearchExact
<1> QED
  BY <1>1, <1>2, <1>4, OthersExact

\* A used unit lies in the row of every start up to it, so none of them will do.
LEMMA UsedBitExact ==
    ASSUME HeapInductive, SearchesExact, NEW c \in Caller, UsedBit(c)
    PROVE  SearchesExact'
<1> DEFINE i == call[c].i
           k == [call[c] EXCEPT !.count = 0]
<1>1. /\ call[c].pc = "bit" /\ i \in bitmap
      /\ bitmap' = bitmap /\ call' = [call EXCEPT ![c] = NextBit(k)]
  BY DEF UsedBit, At, heapvars
<1>2. call[c] \in Call /\ CallFits(call[c]) /\ i \in Nat
  BY Typed
<1>3. k \in Call /\ k.i = i /\ k.n = call[c].n /\ k.count = 0 /\ k.changed = call[c].changed
  BY <1>2 DEF Call
<1>4. k.i < NUM_UNITS /\ k.n \in Sizes /\ k.count < k.n
  BY <1>1, <1>2, <1>3, Sized DEF CallFits, Searching
<1> HIDE DEF k
<1>5. /\ NextBit(k).i = i + 1 /\ NextBit(k).n = call[c].n /\ NextBit(k).count = 0
      /\ NextBit(k).changed = call[c].changed
      /\ NextBit(k).pc = "bit" => (i + 1) \div WORD = i \div WORD
      /\ NextBit(k) \in Call
  BY <1>3, <1>4, NextBitFits
<1>6. call'[c] = NextBit(k) /\ \A d \in Caller : d # c => call'[d] = call[d]
  BY <1>1, Typed
<1>7. ASSUME ~call'[c].changed PROVE SearchExact(c)'
  <2>1. SearchExact(c) /\ c \in Caller /\ call[c].pc \in Searching
    BY <1>1, <1>5, <1>6, <1>7 DEF SearchesExact, In, Searching
  <2>2. Visited' = Visited /\ Starts(call[c].n)' = Starts(call[c].n)
    <3>1. call'[c].n = call[c].n /\ bitmap' = bitmap
      BY <1>1, <1>5, <1>6
    <3> QED
      BY <3>1, SameStarts DEF Starts, Run, Visited, FullWord
  <2>3. i \in Visited /\ \A j \in Visited : j \in Nat
    BY <1>1, <2>1, Sized DEF SearchExact, Visited
  <2>4. SearchStart(c)' = i + 1 /\ Seen(c)' = {}
    <3>1. SearchStart(c)' = i + 1
      BY <1>5, <1>6 DEF SearchStart
    <3> QED
      BY <1>2, <1>5, <1>6, <2>2, <2>3, <3>1 DEF Seen
  <2>5. ASSUME NEW s \in Starts(call[c].n) PROVE i + 1 <= s
    <3>1. SUFFICES ASSUME s <= i PROVE FALSE
      BY <1>2, <2>3 DEF Starts
    <3>2. s \in Nat /\ SearchStart(c) <= s
      BY <2>1, <2>3, <2>5 DEF SearchExact, Starts
    <3>3. i \in Run(s, call[c].n)
      BY <1>2, <2>1, <2>3, <3>1, <3>2, ReachedInRun
    <3> QED
      BY <1>1, <2>5, <3>3 DEF Starts
  <2>6. ASSUME call'[c].pc = "bit" PROVE i + 1 \in Visited
    <3>1. (i + 1) \div WORD = i \div WORD
      BY <1>5, <1>6, <2>6
    <3>2. i + 1 \in Units
      <4>1. i + 1 < NUM_UNITS
        BY <1>4, <1>5, <1>6, <2>6, NextBitFits, <1>3 DEF CallFits, Searching
      <4> QED
        BY <1>2, <4>1, Sized
    <3> QED
      BY <2>3, <3>1, <3>2 DEF Visited
  <2> QED
    BY <1>2, <1>5, <1>6, <2>2, <2>4, <2>5, <2>6, FS_EmptySet DEF SearchExact
<1> QED
  BY <1>1, <1>6, <1>7, OthersExact

\* A free unit is one more of the row.
LEMMA FreeBitExact ==
    ASSUME HeapInductive, SearchesExact, NEW c \in Caller, FreeBit(c)
    PROVE  SearchesExact'
<1> DEFINE i == call[c].i
           k == Counted(c)
<1>1. /\ call[c].pc = "bit" /\ i \notin bitmap /\ k.count < call[c].n
      /\ bitmap' = bitmap /\ call' = [call EXCEPT ![c] = NextBit(k)]
  BY DEF FreeBit, At, heapvars
<1>2. /\ k \in Call /\ k.i = i /\ k.n = call[c].n
      /\ k.count = call[c].count + 1 /\ k.changed = call[c].changed
      /\ k.start = IF call[c].count = 0 THEN i ELSE call[c].start
      /\ k.start + k.count <= i + 1
      /\ i < NUM_UNITS /\ call[c].n \in Sizes /\ i \in Units
  BY <1>1, CountedFits
<1>3. i \in Nat /\ call[c].count \in Nat
  BY Typed
<1> HIDE DEF k
<1>4. /\ NextBit(k).i = i + 1 /\ NextBit(k).n = call[c].n
      /\ NextBit(k).count = call[c].count + 1 /\ NextBit(k).start = k.start
      /\ NextBit(k).changed = call[c].changed
      /\ NextBit(k).pc = "bit" => (i + 1) \div WORD = i \div WORD
      /\ CallFits(NextBit(k))
  BY <1>1, <1>2, NextBitFits
<1>5. call'[c] = NextBit(k) /\ \A d \in Caller : d # c => call'[d] = call[d]
  BY <1>1, Typed
<1>6. ASSUME ~call'[c].changed PROVE SearchExact(c)'
  <2>1. SearchExact(c) /\ call[c].pc \in Searching
    BY <1>1, <1>4, <1>5, <1>6 DEF SearchesExact, In, Searching
  <2>2. Visited' = Visited /\ Starts(call[c].n)' = Starts(call[c].n)
    <3>1. call'[c].n = call[c].n /\ bitmap' = bitmap
      BY <1>1, <1>4, <1>5
    <3> QED
      BY <3>1, SameStarts DEF Starts, Run, Visited, FullWord
  <2>3. i \in Visited /\ \A j \in Visited : j \in Nat
    BY <1>1, <2>1, Sized DEF SearchExact, Visited
  <2>4. k.start = SearchStart(c) /\ SearchStart(c)' = k.start /\ k.start <= i
    BY <1>2, <1>3, <1>4, <1>5, <2>1, SearchLocals DEF SearchStart
  <2>5. Seen(c)' = Seen(c) \cup {i} /\ i \notin Seen(c)
    <3>1. \A j \in Visited : j < i + 1 <=> j < i \/ j = i
      BY <1>3, <2>3
    <3>2. ~(i < i)
      BY <1>3
    <3> QED
      BY <1>4, <1>5, <2>2, <2>3, <2>4, <3>1, <3>2 DEF Seen
  <2>6. Cardinality(Seen(c) \cup {i}) = call[c].count + 1
    <3>1. IsFiniteSet(Seen(c)) /\ Cardinality(Seen(c)) = call[c].count
      BY <2>1, SearchLocals, UnitsFinite DEF SearchExact
    <3> QED
      BY <2>5, <3>1, FS_AddElement
  <2>7. ASSUME call'[c].pc = "bit" PROVE i + 1 \in Visited
    <3>1. (i + 1) \div WORD = i \div WORD /\ i + 1 < NUM_UNITS
      BY <1>4, <1>5, <2>7 DEF CallFits, Searching
    <3>2. i + 1 \in Units
      BY <1>3, <3>1, Sized
    <3> QED
      BY <2>3, <3>1, <3>2 DEF Visited
  <2>8. k.start \in Visited
    BY <1>2, <1>3, <2>1, <2>3 DEF SearchExact
  <2>9. Seen(c)' \cap bitmap' = {}
    BY <1>1, <2>1, <2>5 DEF SearchExact
  <2>10. \A s \in Starts(call[c].n) : SearchStart(c)' <= s
    BY <2>1, <2>4 DEF SearchExact
  <2> QED
    BY <1>4, <1>5, <2>2, <2>5, <2>6, <2>7, <2>8, <2>9, <2>10 DEF SearchExact
<1> QED
  BY <1>1, <1>5, <1>6, OthersExact

\* The other steps of a call change no bit, or tell the searches.
LEMMA OtherStepsExact ==
    ASSUME HeapInductive, SearchesExact, NEW c \in Caller,
           \/ GiveUp(c) \/ Found(c) \/ SetLoad(c) \/ Return(c) \/ ClearLoad(c) \/ FreeEnd(c)
           \/ \E b \in blocks : Free(c, b)
    PROVE  SearchesExact'
<1>1. Quiet.pc = "idle" /\ call \in [Caller -> Call]
  BY Typed DEF Quiet
<1>2. ASSUME NEW k, call' = [call EXCEPT ![c] = k], k.pc \notin Searching
      PROVE  (\A d \in Caller : d # c => call'[d] = call[d]) /\ c \notin In(Searching)'
  BY <1>1, <1>2 DEF In
<1>3. CASE GiveUp(c) \/ Return(c) \/ FreeEnd(c)
  <2>1. bitmap' = bitmap /\ call' = [call EXCEPT ![c] = Quiet]
    BY <1>3 DEF GiveUp, Return, FreeEnd, heapvars
  <2> QED
    BY <1>1, <1>2, <2>1, OthersExact DEF Searching
<1>4. CASE Found(c)
  <2> DEFINE k == [Quiet EXCEPT !.pc = "set", !.n = call[c].n,
                                !.start = Counted(c).start, !.i = FirstMark(Counted(c))]
  <2>1. bitmap' = bitmap /\ call' = [call EXCEPT ![c] = k]
    BY <1>4 DEF Found
  <2>2. k.pc = "set"
    BY DEF Quiet
  <2> HIDE DEF k
  <2> QED
    BY <1>2, <2>1, <2>2, OthersExact DEF Searching
<1>5. CASE SetLoad(c) \/ ClearLoad(c)
  <2>1. PICK store \in {"set_store", "clear_store"} :
          /\ bitmap' = bitmap
          /\ call' = [call EXCEPT ![c].old = bitmap \cap WordOf(call[c].i), ![c].pc = store]
    BY <1>5 DEF SetLoad, ClearLoad, LoadWord, heapvars
  <2> DEFINE k == [call[c] EXCEPT !.old = bitmap \cap WordOf(call[c].i), !.pc = store]
  <2>2. call' = [call EXCEPT ![c] = k] /\ k.pc = store
    BY <1>1, <2>1 DEF Call
  <2> HIDE DEF k
  <2> QED
    BY <1>2, <2>1, <2>2, OthersExact DEF Searching
<1>6. ASSUME NEW b \in blocks, Free(c, b) PROVE SearchesExact'
  <2> DEFINE k == [Quiet EXCEPT !.pc = "clear", !.n = b.units, !.i = b.start, !.start = b.start]
  <2>1. bitmap' = bitmap /\ (call' = call \/ call' = [call EXCEPT ![c] = k]) /\ call[c].pc = "idle"
    BY <1>6 DEF Free
  <2>2. k.pc = "clear"
    BY DEF Quiet
  <2> HIDE DEF k
  <2>3. CASE call' = call
    BY <2>1, <2>3, OthersExact DEF Searching, In
  <2>4. CASE call' = [call EXCEPT ![c] = k]
    BY <1>2, <2>1, <2>2, <2>4, OthersExact DEF Searching
  <2> QED
    BY <2>1, <2>3, <2>4
<1> QED
  BY <1>3, <1>4, <1>5, <1>6

\* Where a bit may have changed no search believes what it has seen.
LEMMA WritesExact ==
    ASSUME HeapInductive,
           \/ \E c \in Caller : SetStore(c) \/ ClearStore(c)
           \/ SearchesGoStale
    PROVE  SearchesExact'
<1>1. \A d \in Caller : call[d] \in Call
  BY Typed
<1>2. CASE SearchesGoStale
  <2>1. call' = [d \in Caller |-> [call[d] EXCEPT !.changed = @ \/ d \in In(Searching)]]
    BY <1>2 DEF SearchesGoStale
  <2>2. ASSUME NEW d \in In(Searching)' PROVE call'[d].changed
    <3>1. d \in Caller /\ call'[d] = [call[d] EXCEPT !.changed = @ \/ d \in In(Searching)]
      BY <2>1 DEF In
    <3>2. call'[d].pc = call[d].pc /\ call'[d].changed = (call[d].changed \/ d \in In(Searching))
      BY <1>1, <3>1 DEF Call
    <3>3. d \in In(Searching)
      BY <3>1, <3>2 DEF In
    <3> QED
      BY <3>2, <3>3
  <2> QED
    BY <2>2 DEF SearchesExact
<1>3. ASSUME NEW c \in Caller, SetStore(c) \/ ClearStore(c) PROVE SearchesExact'
  <2>1. PICK next \in {"set", "clear"} :
          call' = [d \in Caller |->
                    IF d = c THEN [call[c] EXCEPT !.i = @ + 1, !.old = {}, !.pc = next]
                    ELSE [call[d] EXCEPT !.changed = @ \/ d \in In(Searching)]]
    BY <1>3 DEF SetStore, ClearStore, StoreWord
  <2>2. ASSUME NEW d \in In(Searching)' PROVE call'[d].changed
    <3>1. d \in Caller /\ call'[d].pc \in Searching
      BY DEF In
    <3>2. d # c
      <4>1. call'[c] = [call[c] EXCEPT !.i = @ + 1, !.old = {}, !.pc = next]
        BY <2>1
      <4>2. call'[c].pc = next
        BY <1>1, <4>1 DEF Call
      <4> QED
        BY <3>1, <4>2 DEF Searching
    <3>3. call'[d] = [call[d] EXCEPT !.changed = @ \/ d \in In(Searching)]
      BY <2>1, <3>1, <3>2
    <3>4. call'[d].pc = call[d].pc /\ call'[d].changed = (call[d].changed \/ d \in In(Searching))
      BY <1>1, <3>1, <3>3 DEF Call
    <3>5. d \in In(Searching)
      BY <3>1, <3>4 DEF In
    <3> QED
      BY <3>4, <3>5
  <2> QED
    BY <2>2 DEF SearchesExact
<1> QED
  BY <1>2, <1>3

LEMMA ExactStep ==
    ASSUME HeapInductive, SearchesExact, [PreemptNext]_hvars
    PROVE  SearchesExact'
<1>1. CASE UNCHANGED hvars
  <2>1. call' = call /\ bitmap' = bitmap
    BY <1>1 DEF hvars, heapvars
  <2>2. CASE Caller = {}
    BY <2>2 DEF SearchesExact, In
  <2>3. ASSUME NEW c \in Caller PROVE SearchesExact'
    <3>1. ASSUME c \in In(Searching)', ~call'[c].changed PROVE SearchExact(c)'
      <4>1. SearchExact(c)
        BY <2>1, <3>1 DEF SearchesExact, In
      <4> QED
        BY <2>1, <4>1
           DEF SearchExact, SearchStart, Seen, Starts, Run, Visited, FullWord
    <3> QED
      BY <2>1, <3>1, OthersExact
  <2> QED
    BY <2>2, <2>3
<1>2. ASSUME NEW c \in Caller, NEW n \in Sizes, Alloc(c, n) PROVE SearchesExact'
  BY <1>2, AllocExact
<1>3. ASSUME NEW c \in Caller, NEW b \in blocks, Free(c, b) PROVE SearchesExact'
  BY <1>3, OtherStepsExact
<1>4. ASSUME NEW c \in Caller, Step(c) PROVE SearchesExact'
  BY <1>4, SkipWordExact, EnterWordExact, UsedBitExact, FreeBitExact, OtherStepsExact,
     WritesExact DEF Step
<1>5. ASSUME NEW n \in Sizes, MaskedAlloc(n) PROVE SearchesExact'
  BY <1>5, WritesExact DEF MaskedAlloc
<1>6. ASSUME NEW b \in blocks, MaskedFree(b) PROVE SearchesExact'
  BY <1>6, WritesExact DEF MaskedFree
<1> QED
  BY <1>1, <1>2, <1>3, <1>4, <1>5, <1>6 DEF PreemptNext

LEMMA ExactAlways == PreemptSpec => []SearchesExact
<1>1. PreemptInit => SearchesExact
  BY DEF PreemptInit, SearchesExact, In, Searching, Quiet
<1>2. HeapInductive /\ SearchesExact /\ [PreemptNext]_hvars => SearchesExact'
  BY ExactStep
<1> QED
  BY <1>1, <1>2, HeapAlways, PTL DEF PreemptSpec

\* With the unit that completes the row, the search has the whole row of the
\* start it remembers, and no start before it will do.
LEMMA FoundIsFirst ==
    ASSUME HeapInductive, NEW c \in Caller, Found(c), SearchExact(c)
    PROVE  /\ Starts(call[c].n) # {} /\ Counted(c).start = Min(Starts(call[c].n))
           /\ call'[c].start = Counted(c).start
<1> DEFINE i == call[c].i
           n == call[c].n
           s == SearchStart(c)
<1>1. call[c].pc = "bit" /\ i \notin bitmap /\ Counted(c).count = n
  BY DEF Found, At
<1>2. /\ i \in Nat /\ n \in Nat /\ call[c].count \in Nat /\ call[c].pc \in Searching
      /\ s \in Nat /\ s <= i /\ Seen(c) \subseteq Units /\ Visited \subseteq Units
      /\ i \in Visited
  BY <1>1, SearchLocals DEF Searching, SearchExact
<1>3. call[c].count + 1 = n /\ Counted(c).start = s
  BY <1>1, CountedFits DEF SearchStart
<1>4. s \in Visited
  BY <1>2 DEF SearchExact, SearchStart
<1>5. /\ IsFiniteSet(Seen(c)) /\ Cardinality(Seen(c)) = call[c].count
      /\ i \notin Seen(c) /\ Seen(c) \cap bitmap = {}
  BY <1>2, UnitsFinite DEF SearchExact, Seen
<1> DEFINE Row == Seen(c) \cup {i}
<1>6. Cardinality(Row) = n /\ Row \cap bitmap = {} /\ Row \subseteq Units
  <2>1. Cardinality(Row) = call[c].count + 1
    BY <1>5, FS_AddElement
  <2>2. Row \cap bitmap = {} /\ Row \subseteq Units
    BY <1>1, <1>2, <1>5
  <2> QED
    BY <1>3, <2>1, <2>2
<1>7. \A j \in Visited : j \in Nat
  BY Sized DEF Visited
<1>8. \A j : j \in Row <=> j \in Visited /\ s <= j /\ j <= i
  BY <1>2, <1>7 DEF Seen
<1> HIDE DEF Row
<1>9. Run(s, n) \subseteq Row
  <2>1. SUFFICES ASSUME NEW j \in Run(s, n), ~(j <= i) PROVE FALSE
    BY <1>8 DEF Run
  <2> DEFINE before == {k \in {x \in Visited : s <= x} : k < j}
  <2>2. Cardinality(before) < n
    BY DEF Run
  <2>3. Row \subseteq before
    BY <1>2, <1>7, <1>8, <2>1 DEF Run
  <2>4. before \subseteq Units
    BY <1>2
  <2>5. Cardinality(Row) <= Cardinality(before) /\ Cardinality(before) \in Nat
    BY <2>3, <2>4, FewerUnits
  <2> QED
    BY <1>2, <1>6, <2>2, <2>5
<1>10. Row \subseteq Run(s, n)
  BY <1>2, <1>8, ReachedInRun
<1>11. Run(s, n) = Row
  BY <1>9, <1>10
<1>12. s \in Starts(n)
  BY <1>4, <1>6, <1>11 DEF Starts
<1>13. \A x \in Starts(n) : s <= x /\ x \in Nat
  BY <1>7 DEF SearchExact, Starts
<1>14. Min(Starts(n)) = s
  <2>1. Starts(n) \subseteq Nat /\ Starts(n) # {}
    BY <1>12, <1>13
  <2>2. Min(Starts(n)) \in Starts(n) /\ Min(Starts(n)) <= s
    BY <1>12, <2>1, MinOf
  <2>3. Min(Starts(n)) \in Nat /\ s <= Min(Starts(n))
    BY <1>13, <2>2
  <2> QED
    BY <1>2, <2>2, <2>3
<1>15. call'[c].start = Counted(c).start
  <2> DEFINE k == [Quiet EXCEPT !.pc = "set", !.n = call[c].n,
                                !.start = Counted(c).start, !.i = FirstMark(Counted(c))]
  <2>1. call' = [call EXCEPT ![c] = k] /\ call \in [Caller -> Call]
    BY Typed DEF Found
  <2>2. k.start = Counted(c).start
    BY DEF Quiet
  <2> HIDE DEF k
  <2> QED
    BY <2>1, <2>2
<1> QED
  BY <1>3, <1>12, <1>14, <1>15

\* A row that fits is all visited, so its first unit would be a start, and the
\* search would have counted it.
LEMMA GiveUpIsRight ==
    ASSUME HeapInductive, NEW c \in Caller, GiveUp(c), SearchExact(c)
    PROVE  ~Fits(call[c].n)
<1> DEFINE n == call[c].n
<1>1. call[c].pc = "word" /\ call[c].i = NUM_UNITS
  BY DEF GiveUp, At
<1>2. /\ n \in Nat /\ n >= 1 /\ call[c].count \in Nat /\ call[c].count < n
      /\ call[c].pc \in Searching
      /\ SearchStart(c) \in Nat /\ Seen(c) \subseteq Units /\ Visited \subseteq Units
  BY <1>1, SearchLocals, Sized DEF Searching
<1>3. SUFFICES ASSUME NEW s \in Units, s + n <= NUM_UNITS, s .. s + n - 1 \cap bitmap = {}
               PROVE  FALSE
  BY DEF Fits
<1>4. s \in Nat /\ NUM_UNITS \in Nat
  BY Sized
<1> DEFINE Row == s .. s + n - 1
<1>5. Row \subseteq Visited
  <2>1. SUFFICES ASSUME NEW j \in Row PROVE j \in Visited
    OBVIOUS
  <2>2. j \in Nat /\ j \in Units
    BY <1>2, <1>3, <1>4, <2>1, Sized
  <2>3. (j \div WORD) * WORD <= j /\ j <= (j \div WORD + 1) * WORD - 1
    BY <2>2, UnitInWord, HeapAssumption
  <2>4. j \in (j \div WORD) * WORD .. (j \div WORD + 1) * WORD - 1
    BY <2>2, <2>3, DivMod, HeapAssumption
  <2>5. ~FullWord(j \div WORD)
    BY <1>3, <2>1, <2>4 DEF FullWord
  <2> QED
    BY <2>2, <2>5 DEF Visited
<1>6. IsFiniteSet(Row) /\ Cardinality(Row) = n
  <2>1. s \in Int /\ s + n - 1 \in Int /\ ~(s > s + n - 1) /\ (s + n - 1) - s + 1 = n
    BY <1>2, <1>4
  <2>2. IsFiniteSet(Row) /\ Cardinality(Row) = (s + n - 1) - s + 1
    BY <2>1, FS_Interval
  <2> QED
    BY <2>1, <2>2
<1>7. Run(s, n) = Row
  <2>1. ASSUME NEW j \in Row PROVE j \in Run(s, n)
    <3> DEFINE before == {k \in {x \in Visited : s <= x} : k < j}
    <3>1. before \subseteq s .. j - 1 /\ j \in Nat /\ s <= j /\ j < s + n
      BY <1>2, <1>4, <2>1, Sized DEF Visited
    <3>2. IsFiniteSet(s .. j - 1) /\ Cardinality(s .. j - 1) = j - s
      <4>1. s \in Int /\ j - 1 \in Int /\ (s > j - 1 <=> s = j) /\ (j - 1) - s + 1 = j - s
            /\ (s = j => j - s = 0)
        BY <1>4, <3>1
      <4> QED
        BY <4>1, FS_Interval
    <3>3. Cardinality(before) <= j - s /\ Cardinality(before) \in Nat
      BY <3>1, <3>2, FS_Subset, FS_CardinalityType, ZenonT(60)
    <3>4. Cardinality(before) < n
      BY <1>2, <1>4, <3>1, <3>3
    <3>5. j \in Visited /\ s <= j
      BY <1>5, <2>1, <3>1
    <3> QED
      BY <3>4, <3>5 DEF Run
  <2>2. ASSUME NEW j \in Run(s, n), j \notin Row PROVE FALSE
    <3> DEFINE before == {k \in {x \in Visited : s <= x} : k < j}
    <3>1. Cardinality(before) < n /\ j \in Visited /\ s <= j
      BY <2>2 DEF Run
    <3>2. j \in Nat /\ j >= s + n
      BY <1>2, <1>4, <2>2, <3>1, Sized DEF Visited
    <3>3. Row \subseteq before
      BY <1>2, <1>4, <1>5, <3>2
    <3>4. Cardinality(Row) <= Cardinality(before) /\ Cardinality(before) \in Nat
      BY <1>2, <3>3, FewerUnits
    <3> QED
      BY <1>2, <1>6, <3>1, <3>4
  <2> QED
    BY <2>1, <2>2
<1>8. s \in Starts(n)
  <2>1. s \in Row
    BY <1>2, <1>4
  <2> QED
    BY <1>3, <1>5, <1>6, <1>7, <2>1 DEF Starts
<1>9. SearchStart(c) <= s
  BY <1>8 DEF SearchExact
<1>10. Row \subseteq Seen(c)
  BY <1>1, <1>2, <1>3, <1>4, <1>5, <1>9 DEF Seen
<1>11. n <= call[c].count
  BY <1>2, <1>6, <1>10, FewerUnits DEF SearchExact
<1> QED
  BY <1>2, <1>11

\* A search ends only by its own steps.
LEMMA SearchEnds ==
    ASSUME HeapInductive, NEW c \in In(Searching), [PreemptNext]_hvars
    PROVE  /\ call'[c].pc = "set" => Found(c)
           /\ call'[c].pc = "idle" => GiveUp(c)
<1>1. c \in Caller /\ call[c].pc \in Searching
  BY DEF In
<1>2. call \in [Caller -> Call] /\ call[c] \in Call
  BY <1>1, Typed
<1>3. CASE UNCHANGED hvars
  BY <1>1, <1>3 DEF hvars, Searching
<1>4. ASSUME NEW d \in Caller, d # c,
             (\E n \in Sizes : Alloc(d, n)) \/ (\E b \in blocks : Free(d, b)) \/ Step(d)
      PROVE  call'[c].pc = call[c].pc
  <2>1. ASSUME NEW k, call' = [call EXCEPT ![d] = k] PROVE call'[c].pc = call[c].pc
    BY <1>1, <1>2, <1>4, <2>1
  <2>2. CASE (\E n \in Sizes : Alloc(d, n)) \/ (\E b \in blocks : Free(d, b))
    BY <1>4, <2>1, <2>2 DEF Alloc, Free
  <2>3. CASE GiveUp(d) \/ UsedBit(d) \/ FreeBit(d) \/ Found(d) \/ Return(d) \/ FreeEnd(d)
    BY <2>1, <2>3 DEF GiveUp, UsedBit, FreeBit, Found, Return, FreeEnd
  <2>4. CASE SkipWord(d) \/ EnterWord(d) \/ SetLoad(d) \/ ClearLoad(d)
    BY <1>1, <1>2, <1>4, <2>4 DEF SkipWord, EnterWord, SetLoad, ClearLoad, LoadWord
  <2>5. CASE SetStore(d) \/ ClearStore(d)
    BY <1>1, <1>4, <2>5, StoreEffect
  <2> QED
    BY <1>4, <2>2, <2>3, <2>4, <2>5 DEF Step
<1>5. ASSUME Step(c)
      PROVE  /\ call'[c].pc = "set" => Found(c)
             /\ call'[c].pc = "idle" => GiveUp(c)
  <2>1. CASE SkipWord(c) \/ EnterWord(c)
    BY <1>1, <1>2, <2>1 DEF SkipWord, EnterWord, At, Call
  <2>2. CASE UsedBit(c)
    <3> DEFINE k == [call[c] EXCEPT !.count = 0]
    <3>1. call[c].pc = "bit" /\ call' = [call EXCEPT ![c] = NextBit(k)] /\ CallFits(call[c])
      BY <1>1, <2>2, Typed DEF UsedBit, At
    <3>2. k \in Call /\ k.i = call[c].i /\ k.n = call[c].n /\ k.count = 0
      BY <1>2 DEF Call
    <3>3. k.i < NUM_UNITS /\ k.n \in Sizes /\ k.count < k.n
      BY <3>1, <3>2, Sized DEF CallFits, Searching
    <3> HIDE DEF k
    <3>4. NextBit(k).pc \in Searching
      BY <3>2, <3>3, NextBitFits
    <3> QED
      BY <1>1, <1>2, <3>1, <3>4 DEF Searching
  <2>3. CASE FreeBit(c)
    <3>1. call[c].pc = "bit" /\ Counted(c).count < call[c].n
          /\ call' = [call EXCEPT ![c] = NextBit(Counted(c))]
      BY <2>3 DEF FreeBit, At
    <3>2. NextBit(Counted(c)).pc \in Searching
      BY <1>1, <3>1, CountedFits, NextBitFits
    <3> QED
      BY <1>1, <1>2, <3>1, <3>2 DEF Searching
  <2>4. CASE GiveUp(c) \/ Found(c)
    <3>1. CASE Found(c)
      <4>1. c \in In(Setting)'
        BY <1>1, <3>1, FoundEffect
      <4>2. call'[c].pc \in Setting
        BY <4>1 DEF In
      <4> QED
        BY <3>1, <4>2 DEF Setting
    <3>2. CASE GiveUp(c)
      BY <1>1, <1>2, <3>2 DEF GiveUp, Quiet
    <3> QED
      BY <2>4, <3>1, <3>2
  <2>5. CASE SetLoad(c) \/ SetStore(c) \/ Return(c) \/ ClearLoad(c) \/ ClearStore(c) \/ FreeEnd(c)
    BY <1>1, <2>5 DEF SetLoad, SetStore, Return, ClearLoad, ClearStore, FreeEnd, At, Searching
  <2> QED
    BY <1>5, <2>1, <2>2, <2>3, <2>4, <2>5 DEF Step
<1>6. ASSUME (\E n \in Sizes : Alloc(c, n)) \/ (\E b \in blocks : Free(c, b)) PROVE FALSE
  BY <1>1, <1>6 DEF Alloc, Free, Searching
<1>7. CASE (\E n \in Sizes : MaskedAlloc(n)) \/ (\E b \in blocks : MaskedFree(b))
  <2>1. SearchesGoStale
    BY <1>7 DEF MaskedAlloc, MaskedFree
  <2> QED
    BY <1>1, <2>1, GoStale DEF Searching
<1>8. CASE \E d \in Caller : (\E n \in Sizes : Alloc(d, n)) \/ (\E b \in blocks : Free(d, b)) \/ Step(d)
  <2>1. PICK d \in Caller :
          (\E n \in Sizes : Alloc(d, n)) \/ (\E b \in blocks : Free(d, b)) \/ Step(d)
    BY <1>8
  <2>2. CASE d = c
    BY <1>5, <1>6, <2>1, <2>2
  <2>3. CASE d # c
    BY <1>1, <1>4, <2>1, <2>3 DEF Searching
  <2> QED
    BY <2>2, <2>3
<1> QED
  BY <1>3, <1>7, <1>8 DEF PreemptNext

\* find_free_units returns the first start there is and gives up only when no
\* row fits, whatever the other callers do, if no bit is written meanwhile.
THEOREM SearchesFindFirst == PreemptSpec => SearchFindsFirst
<1>1. ASSUME HeapInductive, SearchesExact, [PreemptNext]_hvars, NEW c \in In(Searching),
             ~call[c].changed
      PROVE  /\ call'[c].pc = "set" =>
                  Starts(call[c].n) # {} /\ call'[c].start = Min(Starts(call[c].n))
             /\ call'[c].pc = "idle" => ~Fits(call[c].n)
  <2>1. SearchExact(c) /\ c \in Caller
    BY <1>1 DEF SearchesExact, In
  <2>2. /\ call'[c].pc = "set" => Found(c)
        /\ call'[c].pc = "idle" => GiveUp(c)
    BY <1>1, SearchEnds
  <2> QED
    BY <1>1, <2>1, <2>2, FoundIsFirst, GiveUpIsRight
<1> DEFINE FindsFirst ==
      \A c \in In(Searching) :
         ~call[c].changed =>
           /\ call'[c].pc = "set" =>
                Starts(call[c].n) # {} /\ call'[c].start = Min(Starts(call[c].n))
           /\ call'[c].pc = "idle" => ~Fits(call[c].n)
<1>2. HeapInductive /\ SearchesExact /\ [PreemptNext]_hvars => [FindsFirst]_hvars
  BY <1>1
<1>3. SearchFindsFirst <=> [][FindsFirst]_hvars
  BY DEF SearchFindsFirst
<1> HIDE DEF FindsFirst
<1> QED
  BY <1>2, <1>3, HeapAlways, ExactAlways, PTL DEF PreemptSpec

-----------------------------------------------------------------------------
(* The heap as the calls in progress will leave it or have found it. *)

\* Module Heap on the settled bitmap searches as HeapPreempt does on its own,
\* when they are the same.
LEMMA SettledSearch ==
    /\ Whole!Units = Units /\ \A b : Whole!Extent(b) = Extent(b)
    /\ \A S : Whole!Min(S) = Min(S)
    /\ SettledBitmap = bitmap => \A n : Whole!Starts(n) = Starts(n)
<1>1. ASSUME NEW S PROVE Whole!Cardinality(S) = Cardinality(S)
  BY DEF Whole!Cardinality, Cardinality
<1>2. ASSUME NEW S PROVE Whole!Min(S) = Min(S)
  BY DEF Whole!Min, Min
<1>3. Whole!Units = Units /\ \A b : Whole!Extent(b) = Extent(b)
  BY DEF Whole!Units, Whole!NUM_UNITS, Units, NUM_UNITS, Whole!Extent, Extent
<1>4. ASSUME SettledBitmap = bitmap PROVE Whole!Visited = Visited
  BY <1>3, <1>4 DEF Whole!Visited, Visited, Whole!FullWord, FullWord
<1>5. ASSUME SettledBitmap = bitmap, NEW s, NEW n PROVE Whole!Run(s, n) = Run(s, n)
  <2>1. /\ Whole!Run(s, n) =
             {i \in {x \in Visited : s <= x} :
                Whole!Cardinality({j \in {x \in Visited : s <= x} : j < i}) < n}
        /\ Run(s, n) =
             {i \in {x \in Visited : s <= x} :
                Cardinality({j \in {x \in Visited : s <= x} : j < i}) < n}
    BY <1>4, <1>5 DEF Whole!Run, Run
  <2> QED
    BY <1>1, <2>1
<1>6. ASSUME SettledBitmap = bitmap, NEW n PROVE Whole!Starts(n) = Starts(n)
  <2>1. /\ Whole!Starts(n) =
             {s \in Visited : Whole!Cardinality(Run(s, n)) = n /\ Run(s, n) \cap bitmap = {}}
        /\ Starts(n) =
             {s \in Visited : Cardinality(Run(s, n)) = n /\ Run(s, n) \cap bitmap = {}}
    BY <1>4, <1>5, <1>6 DEF Whole!Starts, Starts
  <2> QED
    BY <1>1, <2>1
<1> QED
  BY <1>2, <1>3, <1>6

\* No two settled blocks overlap as long as nothing was hit, undone or reused.
LEMMA SettledDisjoint ==
    ASSUME HeapInductive, ~corrupt, torn \cap {"choice", "word", "reused"} = {}
    PROVE  Whole!Disjoint
<1>1. /\ \A a, b \in blocks : a # b => Apart(a, b)
      /\ \A a \in blocks, c \in In(Setting) : Apart(a, BlockOf(c))
      /\ \A c, d \in In(Setting) : c # d => Apart(BlockOf(c), BlockOf(d))
  BY DEF HeapInductive, OwnersApart
<1>2. \A c \in In(Clearing) :
         /\ \A b \in blocks : Apart(b, BlockOf(c))
         /\ \A d \in In(Setting) \cup In(Clearing) : c # d => Apart(BlockOf(d), BlockOf(c))
  BY DEF HeapInductive, ReleasesApart
<1>3. \A a, b : Apart(a, b) => Apart(b, a)
  BY DEF Apart
<1>4. SUFFICES ASSUME NEW a \in SettledBlocks, NEW b \in SettledBlocks, a # b PROVE Apart(a, b)
  BY SettledSearch DEF Whole!Disjoint, Whole!Overlaps, Apart
<1>5. ASSUME NEW x \in blocks, NEW y \in SettledBlocks, x # y PROVE Apart(x, y)
  BY <1>1, <1>2, <1>5, SettledBlock
<1>6. ASSUME NEW c \in In(Setting) \cup In(Clearing), NEW d \in In(Setting) \cup In(Clearing),
             c # d
      PROVE  Apart(BlockOf(c), BlockOf(d))
  BY <1>1, <1>2, <1>3, <1>6
<1>7. CASE a \in blocks \/ b \in blocks
  BY <1>3, <1>4, <1>5, <1>7
<1>8. CASE a \notin blocks /\ b \notin blocks
  <2>1. PICK c \in In(Setting) \cup In(Clearing) : a = BlockOf(c)
    BY <1>8, SettledBlock
  <2>2. PICK d \in In(Setting) \cup In(Clearing) : b = BlockOf(d)
    BY <1>8, SettledBlock
  <2> QED
    BY <1>4, <1>6, <2>1, <2>2
<1> QED
  BY <1>7, <1>8

\* What was not torn after a step was not torn before it.
LEMMA TornGrows ==
    ASSUME [PreemptNext]_hvars
    PROVE  torn \subseteq torn'
<1>1. CASE UNCHANGED hvars
  BY <1>1 DEF hvars
<1>2. ASSUME NEW c \in Caller, Step(c) PROVE torn \subseteq torn'
  BY <1>2 DEF Step, SkipWord, EnterWord, GiveUp, UsedBit, FreeBit, Found, SetLoad, SetStore,
     StoreWord, Return, ClearLoad, ClearStore, FreeEnd
<1> QED
  BY <1>1, <1>2 DEF PreemptNext, Alloc, Free, MaskedAlloc, MaskedFree

\* A block is found: mem_alloc.
LEMMA AllocRefines ==
    ASSUME HeapInductive, ~corrupt, torn \cap {"choice", "word", "reused"} = {},
           NEW n \in Sizes, SettledBitmap = bitmap, Starts(n) # {}, NEW b,
           b = [start |-> Min(Starts(n)), units |-> n],
           \A u : u \in SettledBitmap' <=> u \in SettledBitmap \/ u \in Extent(b),
           SettledBlocks' = SettledBlocks \cup {b}, latest' = {b}
    PROVE  Whole!HeapNext
<1>1. Whole!Starts(n) = Starts(n) /\ Whole!Min(Starts(n)) = Min(Starts(n))
  BY SettledSearch
<1>2. SettledBitmap' = SettledBitmap \cup Whole!Extent(b)
  BY SettledSearch
<1>3. Whole!MemAlloc(n)
  BY <1>1, <1>2, SettledDisjoint DEF Whole!MemAlloc
<1> QED
  BY <1>3 DEF Whole!HeapNext

\* The magic goes: mem_free.
LEMMA FreeRefines ==
    ASSUME HeapInductive, ~corrupt, torn \cap {"choice", "word", "reused"} = {},
           NEW b \in SettledBlocks,
           SettledBitmap' = SettledBitmap \ Extent(b),
           SettledBlocks' = SettledBlocks \ {b}, latest' = latest \ {b}
    PROVE  Whole!HeapNext
<1>1. SettledBitmap' = SettledBitmap \ Whole!Extent(b)
  BY SettledSearch
<1>2. Whole!MemFree(b)
  BY <1>1, SettledDisjoint DEF Whole!MemFree
<1> QED
  BY <1>2 DEF Whole!HeapNext

LEMMA CallRefines ==
    ASSUME HeapInductive, SearchesExact, [PreemptNext]_hvars, torn' \subseteq {"crossed"}
    PROVE  [Whole!HeapNext]_(Whole!heapvars)
<1>1. torn \subseteq {"crossed"} /\ torn \cap {"choice", "word", "reused"} = {}
      /\ torn' \cap {"choice", "word", "reused"} = {}
  BY TornGrows
<1>2. CASE UNCHANGED hvars
  BY <1>2, HeapStutters
<1>3. ASSUME NEW c \in Caller,
             (\E n \in Sizes : Alloc(c, n)) \/ (\E b \in blocks : Free(c, b))
      PROVE  UNCHANGED Whole!heapvars
  BY <1>3, AllocKeeps, FreeKeeps
<1>4. ASSUME NEW c \in Caller,
             \/ SkipWord(c) \/ EnterWord(c) \/ GiveUp(c) \/ UsedBit(c) \/ FreeBit(c)
             \/ SetLoad(c) \/ Return(c) \/ ClearLoad(c)
      PROVE  UNCHANGED Whole!heapvars
  BY <1>4, SkipWordKeeps, EnterWordKeeps, GiveUpKeeps, UsedBitKeeps, FreeBitKeeps, LoadKeeps,
     ReturnKeeps
<1>5. ASSUME NEW c \in Caller, SetStore(c) \/ ClearStore(c) PROVE UNCHANGED Whole!heapvars
  <2>1. SettledBlocks' = SettledBlocks /\ SettledBitmap' = SettledBitmap
    BY <1>1, <1>5, SetStoreKeeps, ClearStoreKeeps
  <2>2. latest' = latest
    BY <1>5, StoreEffect
  <2> QED
    BY <2>1, <2>2 DEF Whole!heapvars
<1>6. ASSUME NEW c \in Caller, Found(c) PROVE Whole!HeapNext
  <2> DEFINE n == call[c].n
  <2>1. PICK b \in Block :
              /\ b = [start |-> Counted(c).start, units |-> n]
              /\ call[c].pc = "bit" /\ ~corrupt /\ BlockOf(c)' = b /\ latest' = {b}
              /\ torn' = torn \cup Incidents(b, call[c].i, call[c].changed)
    BY <1>6, FoundEffect
  <2>2. ~call[c].changed /\ SettledBitmap = bitmap
    <3>1. "between" \notin Incidents(b, call[c].i, call[c].changed)
      BY <1>1, <2>1
    <3> QED
      BY <3>1 DEF Incidents
  <2>3. SearchExact(c)
    BY <2>1, <2>2 DEF SearchesExact, In, Searching
  <2>4. Starts(n) # {} /\ Counted(c).start = Min(Starts(n)) /\ n \in Sizes
    BY <1>6, <2>1, <2>3, FoundIsFirst, CountedFits
  <2>5. /\ \A u : u \in SettledBitmap' <=> u \in SettledBitmap \/ u \in Extent(b)
        /\ SettledBlocks' = SettledBlocks \cup {b}
    BY <1>6, <2>1, FoundKeeps
  <2> HIDE DEF n
  <2> QED
    BY <1>1, <2>1, <2>2, <2>4, <2>5, AllocRefines
<1>7. ASSUME NEW c \in Caller, FreeEnd(c) PROVE Whole!HeapNext
  <2>1. ~corrupt
    BY <1>7 DEF FreeEnd, At
  <2>2. /\ SettledBitmap' = SettledBitmap \ Extent(BlockOf(c))
        /\ BlockOf(c) \in SettledBlocks /\ SettledBlocks' = SettledBlocks \ {BlockOf(c)}
        /\ latest' = latest \ {BlockOf(c)}
    BY <1>1, <1>7, FreeEndKeeps
  <2> QED
    BY <1>1, <2>1, <2>2, FreeRefines
<1>8. ASSUME NEW n \in Sizes, MaskedAlloc(n) PROVE Whole!HeapNext
  <2>1. PICK b \in Block, last \in Nat :
              /\ b = [start |-> Min(Starts(n)), units |-> n] /\ Starts(n) # {}
              /\ ~corrupt /\ latest' = {b}
              /\ torn' = torn \cup Incidents(b, last, FALSE)
                              \cup {x \in {"reused"} : StillRead(b) # {}}
    BY <1>8, MaskedAllocEffect
  <2>2. SettledBitmap = bitmap
    <3>1. "between" \notin Incidents(b, last, FALSE)
      BY <1>1, <2>1
    <3> QED
      BY <3>1 DEF Incidents
  <2>3. /\ \A u : u \in SettledBitmap' <=> u \in SettledBitmap \/ u \in Extent(b)
        /\ SettledBlocks' = SettledBlocks \cup {b}
    BY <1>8, <2>1, MaskedAllocKeeps
  <2> QED
    BY <1>1, <2>1, <2>2, <2>3, AllocRefines
<1>9. ASSUME NEW b \in blocks, MaskedFree(b) PROVE Whole!HeapNext
  <2>1. ~corrupt
    BY <1>9 DEF MaskedFree, MayBegin
  <2> QED
    BY <1>1, <1>9, <2>1, MaskedFreeKeeps, FreeRefines
<1> QED
  BY <1>2, <1>3, <1>4, <1>5, <1>6, <1>7, <1>8, <1>9 DEF PreemptNext, Step

\* The calls that ticks cut into pieces do what module Heap does in one step,
\* from the end of a search to the end of a mem_free, as long as no search ran
\* while bits were being written and nothing was torn.
THEOREM HeapCallsAtomic == PreemptSpec => AtomicHeapCalls
<1>1. PreemptInit => Whole!HeapInit
  BY HeapStarts DEF Whole!HeapInit
<1> DEFINE AsHeap == torn' \subseteq {"crossed"} => [Whole!HeapNext]_(Whole!heapvars)
<1>2. HeapInductive /\ SearchesExact /\ [PreemptNext]_hvars => [AsHeap]_hvars
  BY CallRefines
<1>3. AtomicHeapCalls <=> Whole!HeapInit /\ [][AsHeap]_hvars
  BY DEF AtomicHeapCalls
<1> HIDE DEF AsHeap
<1> QED
  BY <1>1, <1>2, <1>3, HeapAlways, ExactAlways, PTL DEF PreemptSpec
=============================================================================
