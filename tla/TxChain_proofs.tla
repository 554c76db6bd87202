---------------------------- MODULE TxChain_proofs ----------------------------
(* Recovery of lost transactions, for every finite set of transactions,      *)
(* whatever each spends, and every depth: what the chain holds when tracing  *)
(* ends, what the sort takes, and what sending it leads to.                  *)
EXTENDS TxChain, FiniteSetTheorems, SequenceTheorems, TLAPS

\* A transaction that was visited, or is still to be.
Pending(x) == x \in visited \/ \E d \in DOMAIN frames : x \in frames[d]

ChainTypes ==
    /\ network \subseteq Txs /\ chain \subseteq Txs /\ visited \subseteq Txs /\ orphans \subseteq Txs
    /\ gap \in BOOLEAN /\ unreliable \in BOOLEAN /\ others \in Nat
    /\ frames \in Seq(SUBSET Txs)

\* Tracing: unless it broke off, what was visited is accounted for, and the
\* parents of what is in the chain were visited or will be.
TraceInv ==
    /\ chain \subseteq visited
    /\ gap \/ Len(frames) > 1 => visited # {}
    /\ phase # "trace" => frames = <<>>
    /\ ~gap => /\ visited \subseteq chain \cup network \cup (Txs \ stored)
               /\ \A t \in chain : \A p \in Parents[t] : Pending(p)

Distinct(s) == \A i, j \in DOMAIN s : s[i] = s[j] => i = j

\* No transaction of the chain spends another.
Unrelated == \A t \in chain : Parents[t] \cap chain = {}

\* Sorting: a transaction is queued once, when its degree falls to 0, and the
\* degree of one without parents in the chain never falls.
SortInv ==
    phase = "sort" =>
        /\ degree \in [chain -> Int]
        /\ queue \in Seq(chain) /\ sorted \in Seq(chain)
        /\ Distinct(queue) /\ Distinct(sorted)
        /\ \A i \in DOMAIN queue, j \in DOMAIN sorted : queue[i] # sorted[j]
        /\ \A i \in DOMAIN queue : degree[queue[i]] <= 0
        /\ \A i \in DOMAIN sorted : degree[sorted[i]] <= 0
        /\ \A t \in chain : Parents[t] \cap chain = {} => degree[t] = InDegree(t)

\* What is sorted is the chain, and nothing in it is related.
OrderInv ==
    phase \in {"ordered", "send", "sent"} =>
        /\ sorted \in Seq(chain) /\ \A t \in chain : t \in ToSet(sorted)
        /\ Unrelated

\* Sending: what is no longer unsent was refused or is on the network.
SendInv ==
    /\ phase = "send" =>
         /\ unsent \in Seq(chain)
         /\ \A t \in chain : t \in ToSet(unsent) \/ t \in failed \/ t \in network
    /\ phase = "sent" => \A t \in chain : t \in failed \/ t \in network

\* A parent of whatever was refused for want of one could not be loaded.
OrphansInv == \A t \in orphans : \E p \in Parents[t] : p \notin stored

ChainInv ==
    /\ ChainTypes /\ TraceInv /\ SortInv /\ OrderInv /\ SendInv
    /\ phase \in Phases
    /\ ~gap => OrphansInv

-----------------------------------------------------------------------------
(* Numbers and sequences *)

\* A non-empty set of naturals has a least element.
LEMMA LeastNatural ==
    ASSUME NEW T, T \subseteq Nat, T # {}
    PROVE  \E x \in T : \A y \in T : x <= y
  <1> DEFINE Less == OpToRel(<, Nat)
  <1>1. \E x \in T : \A y \in T : ~(<<y, x>> \in Less)
    <2>1. IsWellFoundedOn(Less, Nat)
      BY NatLessThanWellFounded
    <2> HIDE DEF Less
    <2>2. QED
      BY <2>1, WFMin
  <1>2. PICK x \in T : \A y \in T : ~(<<y, x>> \in Less)
    BY <1>1
  <1>3. \A y \in T : ~(y < x)
    BY <1>2 DEF OpToRel
  <1>4. QED
    BY <1>3

\* What dropping the last leads to.
LEMMA Fronted ==
    ASSUME NEW T, NEW s \in Seq(T), s # <<>>
    PROVE  /\ Front(s) \in Seq(T) /\ Len(Front(s)) = Len(s) - 1
           /\ \A i \in 1 .. Len(s) - 1 : Front(s)[i] = s[i]
           /\ Last(s) \in T
  <1> DEFINE n == Len(s) - 1
  <1>1. Len(s) \in Nat /\ Len(s) > 0 /\ n \in Nat /\ \A i \in 1 .. n : s[i] \in T
    OBVIOUS
  <1>2. Front(s) = SubSeq(s, 1, n)
    BY DEF Front
  <1> HIDE DEF n
  <1>3. /\ SubSeq(s, 1, n) \in Seq(T) /\ Len(SubSeq(s, 1, n)) = n
        /\ \A i \in 1 .. n : SubSeq(s, 1, n)[i] = s[i]
    <2>1. n - 1 + 1 = n /\ \A i \in 1 .. n : 1 + i - 1 = i
      BY <1>1
    <2>2. n \in Int /\ 1 \in Int
      BY <1>1
    <2>3. /\ SubSeq(s, 1, n) \in Seq(T)
          /\ Len(SubSeq(s, 1, n)) = IF 1 <= n THEN n - 1 + 1 ELSE 0
          /\ \A i \in 1 .. n - 1 + 1 : SubSeq(s, 1, n)[i] = s[1 + i - 1]
      BY <1>1, <2>2, SubSeqProperties
    <2>4. QED
      BY <1>1, <2>1, <2>3
  <1>4. QED
    BY <1>1, <1>2, <1>3 DEF Last, n

\* What replacing the last leads to.
LEMMA Replaced ==
    ASSUME NEW T, NEW s \in Seq(T), s # <<>>, NEW e \in T
    PROVE  /\ Front(s) \o <<e>> \in Seq(T)
           /\ Len(Front(s) \o <<e>>) = Len(s)
           /\ \A i \in 1 .. Len(s) : (Front(s) \o <<e>>)[i] = IF i < Len(s) THEN s[i] ELSE e
  <1>1. Len(s) \in Nat /\ Len(s) > 0
    OBVIOUS
  <1>2. <<e>> \in Seq(T) /\ Len(<<e>>) = 1 /\ <<e>>[1] = e
    OBVIOUS
  <1>3. QED
    BY <1>1, <1>2, Fronted

\* What a new element at the end leads to.
LEMMA Appended ==
    ASSUME NEW T, NEW s \in Seq(T), NEW e \in T
    PROVE  /\ Append(s, e) \in Seq(T)
           /\ Len(Append(s, e)) = Len(s) + 1
           /\ \A i \in 1 .. Len(s) : Append(s, e)[i] = s[i]
           /\ Append(s, e)[Len(s) + 1] = e
  BY AppendProperties

\* What taking the first and adding others at the end leads to.
LEMMA Queued ==
    ASSUME NEW T, NEW q \in Seq(T), q # <<>>, NEW s \in Seq(T)
    PROVE  LET r == Tail(q) \o s
           IN  /\ r \in Seq(T) /\ Len(r) = Len(q) - 1 + Len(s)
               /\ Head(q) = q[1]
               /\ \A i \in 1 .. Len(r) :
                      r[i] = IF i <= Len(q) - 1 THEN q[i + 1] ELSE s[i - (Len(q) - 1)]
  BY HeadTailProperties, ConcatProperties

\* As many different elements of a finite set as it has are all of them.
LEMMA AllOfThem ==
    ASSUME NEW T, IsFiniteSet(T), NEW s \in Seq(T), Distinct(s), Len(s) = Cardinality(T)
    PROVE  \A x \in T : x \in ToSet(s)
  <1>1. s \in Injection(1 .. Len(s), T)
    BY DEF Distinct, Injection, IsInjective
  <1>2. Cardinality(1 .. Len(s)) = Cardinality(T)
    BY FS_Interval
  <1>3. s \in Surjection(1 .. Len(s), T)
    BY <1>1, <1>2, FS_Injection
  <1>4. QED
    BY <1>3 DEF Surjection, ToSet

-----------------------------------------------------------------------------
(* Tracing *)

\* What is in a level stays when another level is added and t is taken from the
\* last.
LEMMA KeptInFrames ==
    ASSUME NEW T, NEW f \in Seq(SUBSET T), f # <<>>, NEW t, NEW g,
           \/ g = Front(f) \o <<Last(f) \ {t}>>
           \/ \E P \in SUBSET T : g = Append(Front(f) \o <<Last(f) \ {t}>>, P),
           NEW d \in DOMAIN f, NEW x \in f[d]
    PROVE  x = t \/ (d \in DOMAIN g /\ x \in g[d])
  <1> DEFINE e == Last(f) \ {t}
             r == Front(f) \o <<e>>
  <1>1. e \in SUBSET T /\ Last(f) = f[Len(f)]
    <2>1. Last(f) \in SUBSET T
      BY Fronted
    <2>2. QED
      BY <2>1 DEF Last
  <1>2. /\ r \in Seq(SUBSET T) /\ Len(r) = Len(f)
        /\ \A i \in 1 .. Len(f) : r[i] = IF i < Len(f) THEN f[i] ELSE e
    <2> HIDE DEF e
    <2>1. QED
      BY <1>1, Replaced
  <1>3. d \in 1 .. Len(f) /\ (x = t \/ x \in r[d])
    BY <1>1, <1>2
  <1> HIDE DEF r
  <1>4. CASE g = r
    BY <1>2, <1>3, <1>4
  <1>5. ASSUME NEW P \in SUBSET T, g = Append(r, P) PROVE d \in DOMAIN g /\ g[d] = r[d]
    BY <1>2, <1>3, <1>5, Appended
  <1>6. QED
    BY <1>3, <1>4, <1>5 DEF r

\* The frames after a visit.
LEMMA VisitFrames ==
    ASSUME ChainTypes, NEW t \in Txs, Visit(t)
    PROVE  /\ frames' \in Seq(SUBSET Txs)
           /\ \A x : Pending(x) => Pending(x)'
           /\ chain' # chain => \A p \in Parents[t] : Pending(p)'
  <1> DEFINE e == Last(frames) \ {t}
             rest == Front(frames) \o <<e>>
  <1>1. frames # <<>> /\ visited' = visited \cup {t}
    BY DEF Visit
  <1>2. Last(frames) \in SUBSET Txs /\ e \in SUBSET Txs
    BY <1>1, Fronted DEF ChainTypes
  <1>3. rest \in Seq(SUBSET Txs)
    BY <1>1, <1>2, Replaced DEF ChainTypes
  <1>4. \/ frames' = rest /\ chain' = chain
        \/ frames' = Append(rest, Parents[t])
    BY DEF Visit
  <1>5. Parents[t] \in SUBSET Txs
    BY ChainAssumption
  <1> HIDE DEF rest
  <1>6. frames' \in Seq(SUBSET Txs)
    BY <1>3, <1>4, <1>5, Appended
  <1>7. ASSUME NEW x, Pending(x) PROVE Pending(x)'
    <2>1. ASSUME NEW d \in DOMAIN frames, x \in frames[d]
          PROVE  x = t \/ (d \in DOMAIN frames' /\ x \in frames'[d])
      <3>1. frames \in Seq(SUBSET Txs)
        BY DEF ChainTypes
      <3>2. \/ frames' = Front(frames) \o <<Last(frames) \ {t}>>
            \/ \E P \in SUBSET Txs : frames' = Append(Front(frames) \o <<Last(frames) \ {t}>>, P)
        BY <1>4, <1>5 DEF rest
      <3>3. QED
        BY <1>1, <2>1, <3>1, <3>2, KeptInFrames
    <2>2. QED
      BY <1>1, <1>7, <2>1 DEF Pending
  <1>8. ASSUME chain' # chain, NEW p \in Parents[t] PROVE Pending(p)'
    <2>1. frames' = Append(rest, Parents[t])
      BY <1>4, <1>8
    <2>2. Len(rest) + 1 \in DOMAIN frames' /\ p \in frames'[Len(rest) + 1]
      BY <1>3, <1>5, <1>8, <2>1, Appended
    <2>3. QED
      BY <2>2 DEF Pending
  <1>9. QED
    BY <1>6, <1>7, <1>8

LEMMA VisitStep == ASSUME ChainInv, NEW t \in Txs, Visit(t) PROVE ChainInv'
  <1>1. /\ phase = "trace" /\ phase' = "trace" /\ gap' = gap
        /\ visited' = visited \cup {t}
        /\ chain' = chain \/ chain' = chain \cup {t}
        /\ t \in visited \/ t \in network \/ t \notin stored \/ t \in chain'
        /\ UNCHANGED <<unreliable, network, stored, orphans, others>>
    BY DEF Visit, Says, Lost, building
  <1>2. ChainTypes'
    BY <1>1, VisitFrames DEF ChainInv, ChainTypes
  <1>3. TraceInv'
    <2>1. ASSUME ~gap, NEW u \in chain', NEW p \in Parents[u] PROVE Pending(p)'
      <3>1. CASE u \in chain
        BY <2>1, <3>1, VisitFrames DEF ChainInv, TraceInv
      <3>2. CASE u \notin chain
        BY <1>1, <2>1, <3>2, VisitFrames DEF ChainInv
      <3>3. QED
        BY <3>1, <3>2
    <2>2. visited' # {}
      BY <1>1
    <2>3. QED
      BY <1>1, <2>1, <2>2 DEF ChainInv, TraceInv, ChainTypes
  <1>4. QED
    BY <1>1, <1>2, <1>3 DEF ChainInv, SortInv, OrderInv, SendInv, OrphansInv, Phases

LEMMA VisitFailsStep == ASSUME ChainInv, NEW t \in Txs, VisitFails(t) PROVE ChainInv'
  <1>1. /\ phase' = "broken" /\ frames' = <<>> /\ gap' = TRUE
        /\ visited' = visited \/ visited' = visited \cup {t}
        /\ UNCHANGED <<unreliable, network, stored, chain, orphans, others>>
    BY DEF VisitFails, building
  <1>2. visited' # {}
    BY ChainAssumption DEF VisitFails, ChainInv, TraceInv
  <1>3. QED
    BY <1>1, <1>2 DEF ChainInv, ChainTypes, TraceInv, SortInv, OrderInv, SendInv, Phases

\* The frames after a level is done.
LEMMA LevelFrames ==
    ASSUME ChainTypes, LevelDone
    PROVE  /\ frames' \in Seq(SUBSET Txs) /\ Len(frames) \in Nat /\ Len(frames) > 0
           /\ Len(frames') = Len(frames) - 1
           /\ \A x : Pending(x) => Pending(x)'
  <1>1. frames # <<>> /\ Last(frames) = {} /\ frames' = Front(frames) /\ visited' = visited
    BY DEF LevelDone, building
  <1>2. frames \in Seq(SUBSET Txs) /\ Len(frames) \in Nat /\ Len(frames) > 0
    BY <1>1 DEF ChainTypes
  <1>3. /\ frames' \in Seq(SUBSET Txs) /\ Len(frames') = Len(frames) - 1
        /\ \A i \in 1 .. Len(frames) - 1 : frames'[i] = frames[i]
    BY <1>1, <1>2, Fronted
  <1>4. ASSUME NEW x, Pending(x) PROVE Pending(x)'
    <2>1. ASSUME NEW d \in DOMAIN frames, x \in frames[d] PROVE d \in DOMAIN frames' /\ x \in frames'[d]
      <3>1. d \in 1 .. Len(frames) /\ d # Len(frames)
        BY <1>1, <1>2, <2>1 DEF Last
      <3>2. QED
        BY <1>2, <1>3, <2>1, <3>1
    <2>2. QED
      BY <1>1, <1>4, <2>1 DEF Pending
  <1>5. QED
    BY <1>2, <1>3, <1>4

LEMMA LevelDoneStep == ASSUME ChainInv, LevelDone PROVE ChainInv'
  <1> USE DEF ChainInv
  <1>1. /\ phase = "trace"
        /\ phase' = IF Len(frames) = 1 THEN "traced" ELSE "trace"
        /\ UNCHANGED <<unreliable, network, stored, visited, gap, chain, orphans, others>>
    BY DEF LevelDone, building
  <1>2. phase' # "trace" => frames' = <<>>
    BY <1>1, LevelFrames
  <1>3. TraceInv'
    BY <1>1, <1>2, LevelFrames DEF TraceInv
  <1>4. QED
    BY <1>1, <1>3, LevelFrames DEF ChainTypes, SortInv, OrderInv, SendInv, OrphansInv, Phases

\* A call for a root, with the maps of an earlier one or with new ones.
LEMMA TraceStep ==
    ASSUME ChainInv, NEW t \in Txs,
           \/ phase # "trace" /\ Trace(t, visited, chain)
           \/ OrphansInv /\ Trace(t, {}, {})
    PROVE  ChainInv'
  <1> USE DEF ChainInv
  <1>1. /\ phase' = "trace" /\ frames' = <<{t}>>
        /\ UNCHANGED <<unreliable, network, stored, orphans, others>>
    BY DEF Trace, building
  <1>2. frames' \in Seq(SUBSET Txs) /\ Len(frames') = 1
    BY <1>1
  <1>3. CASE phase # "trace" /\ Trace(t, visited, chain)
    <2>1. visited' = visited /\ chain' = chain /\ gap' = gap
      BY <1>3 DEF Trace, TraceInv, ChainTypes
    <2>2. \A x : Pending(x) => Pending(x)'
      BY <1>3, <2>1 DEF Pending, TraceInv
    <2>3. TraceInv'
      BY <1>1, <1>2, <2>1, <2>2 DEF TraceInv
    <2>4. QED
      BY <1>1, <1>2, <2>1, <2>3 DEF ChainTypes, SortInv, OrderInv, SendInv, OrphansInv, Phases
  <1>4. CASE OrphansInv /\ Trace(t, {}, {})
    <2>1. visited' = {} /\ chain' = {} /\ gap' = FALSE
      BY <1>4 DEF Trace
    <2>2. ChainTypes'
      BY <1>1, <1>2, <2>1 DEF ChainTypes
    <2>3. TraceInv'
      BY <1>1, <1>2, <2>1 DEF TraceInv
    <2>4. OrphansInv'
      BY <1>1, <1>4 DEF OrphansInv
    <2>5. QED
      BY <1>1, <2>2, <2>3, <2>4 DEF SortInv, OrderInv, SendInv, Phases
  <1>5. QED
    BY <1>3, <1>4

-----------------------------------------------------------------------------
(* The sort *)

LEMMA ChainIsFinite == ChainTypes => IsFiniteSet(chain) /\ \A t : InDegree(t) \in Nat
  <1> SUFFICES ASSUME ChainTypes PROVE IsFiniteSet(chain) /\ \A t : InDegree(t) \in Nat
    OBVIOUS
  <1>1. IsFiniteSet(chain)
    BY FS_Subset, ChainAssumption DEF ChainTypes
  <1>2. \A t : IsFiniteSet(Children(t))
    BY <1>1, FS_Subset DEF Children
  <1>3. QED
    BY <1>1, <1>2, FS_CardinalityType DEF InDegree

\* The ways to put some of a finite set in a row.
LEMMA InARow ==
    ASSUME NEW T, IsFiniteSet(T), NEW S \in SUBSET T, NEW s \in SetToSeqs(S)
    PROVE  s \in Seq(T) /\ Distinct(s) /\ \A i \in DOMAIN s : s[i] \in S
  <1>1. Cardinality(S) \in Nat
    BY FS_Subset, FS_CardinalityType
  <1>2. s \in [1 .. Cardinality(S) -> S] /\ Distinct(s)
    BY DEF SetToSeqs, Distinct
  <1>3. s \in Seq(S) /\ DOMAIN s = 1 .. Cardinality(S)
    BY <1>1, <1>2
  <1>4. QED
    BY <1>2, <1>3

LEMMA StartSortStep == ASSUME ChainInv, phase # "trace", StartSort PROVE ChainInv'
  <1> USE DEF ChainInv
  <1>1. /\ phase' = "sort" /\ sorted' = <<>>
        /\ degree' = [t \in chain |-> InDegree(t)]
        /\ queue' \in SetToSeqs({t \in chain : InDegree(t) = 0})
        /\ UNCHANGED <<unreliable, network, stored, frames, visited, gap, chain, orphans, others>>
    BY DEF StartSort, sorting
  <1>2. IsFiniteSet(chain) /\ \A t : InDegree(t) \in Nat /\ InDegree(t)' = InDegree(t)
    BY <1>1, ChainIsFinite DEF InDegree, Children
  <1>3. /\ queue' \in Seq(chain) /\ Distinct(queue')
        /\ \A i \in DOMAIN queue' : queue'[i] \in chain /\ InDegree(queue'[i]) = 0
    <2> DEFINE S == {t \in chain : InDegree(t) = 0}
    <2>1. S \in SUBSET chain
      OBVIOUS
    <2>2. queue' \in Seq(chain) /\ Distinct(queue') /\ \A i \in DOMAIN queue' : queue'[i] \in S
      BY <1>1, <1>2, <2>1, InARow
    <2>3. QED
      BY <2>2
  <1>4. ChainTypes' /\ TraceInv'
    BY <1>1 DEF ChainTypes, TraceInv, Pending
  <1>5. SortInv'
    <2>1. degree' \in [chain -> Int]
      BY <1>1, <1>2
    <2>2. sorted' \in Seq(chain) /\ DOMAIN sorted' = {}
      BY <1>1
    <2>3. \A i \in DOMAIN queue' : degree'[queue'[i]] <= 0
      BY <1>1, <1>3
    <2>4. \A t \in chain : degree'[t] = InDegree(t)'
      BY <1>1, <1>2
    <2>5. Distinct(queue)' /\ Distinct(sorted)'
      BY <1>3, <2>2 DEF Distinct
    <2>6. QED
      BY <1>1, <1>3, <2>1, <2>2, <2>3, <2>4, <2>5 DEF SortInv
  <1>6. QED
    BY <1>1, <1>4, <1>5 DEF OrderInv, SendInv, OrphansInv, Phases

LEMMA SortNextStep == ASSUME ChainInv, SortNext PROVE ChainInv'
  <1> USE DEF ChainInv
  <1> DEFINE t == Head(queue)
             left == [c \in chain |-> IF c \in Children(t) THEN degree[c] - 1 ELSE degree[c]]
             N == {c \in Children(t) : left[c] = 0}
  <1>1. /\ phase = "sort" /\ phase' = "sort" /\ queue # <<>>
        /\ degree' = left /\ sorted' = Append(sorted, t)
        /\ UNCHANGED <<unreliable, network, stored, frames, visited, gap, chain, orphans, others>>
    BY DEF SortNext, sorting
  <1>2. PICK s \in SetToSeqs(N) : queue' = Tail(queue) \o s
    BY DEF SortNext
  <1>3. IsFiniteSet(chain) /\ \A c : InDegree(c)' = InDegree(c)
    BY <1>1, ChainIsFinite DEF InDegree, Children
  <1>4. /\ degree \in [chain -> Int]
        /\ queue \in Seq(chain) /\ sorted \in Seq(chain)
        /\ Distinct(queue) /\ Distinct(sorted)
        /\ \A i \in DOMAIN queue, j \in DOMAIN sorted : queue[i] # sorted[j]
        /\ \A i \in DOMAIN queue : degree[queue[i]] <= 0
        /\ \A i \in DOMAIN sorted : degree[sorted[i]] <= 0
        /\ \A c \in chain : Parents[c] \cap chain = {} => degree[c] = InDegree(c)
    BY <1>1 DEF SortInv
  <1>5. /\ s \in Seq(chain) /\ Distinct(s)
        /\ \A i \in DOMAIN s : s[i] \in chain /\ degree[s[i]] = 1 /\ left[s[i]] = 0
    <2>1. N \in SUBSET chain /\ \A c \in N : c \in chain /\ degree[c] = 1 /\ left[c] = 0
      BY <1>4 DEF Children
    <2> HIDE DEF N
    <2>2. QED
      BY <1>3, <2>1, InARow
  <1>6. /\ queue' \in Seq(chain) /\ Len(queue') = Len(queue) - 1 + Len(s) /\ t = queue[1]
        /\ \A i \in 1 .. Len(queue') :
               queue'[i] = IF i <= Len(queue) - 1 THEN queue[i + 1] ELSE s[i - (Len(queue) - 1)]
    BY <1>1, <1>2, <1>4, <1>5, Queued
  <1>7. t \in chain /\ Len(queue) \in Nat /\ Len(queue) > 0 /\ Len(s) \in Nat /\ Len(sorted) \in Nat
    BY <1>1, <1>4, <1>5, <1>6
  <1>8. /\ sorted' \in Seq(chain) /\ Len(sorted') = Len(sorted) + 1
        /\ \A i \in 1 .. Len(sorted) : sorted'[i] = sorted[i]
        /\ sorted'[Len(sorted) + 1] = t
    BY <1>1, <1>4, <1>7, Appended
  <1>9. degree' \in [chain -> Int] /\ \A c \in chain : degree'[c] <= degree[c]
    BY <1>1, <1>4
  <1> HIDE DEF t, left, N
  <1>10. ASSUME NEW i \in DOMAIN queue'
         PROVE  \/ i + 1 \in DOMAIN queue /\ i + 1 # 1 /\ queue'[i] = queue[i + 1]
                \/ /\ i - (Len(queue) - 1) \in DOMAIN s
                   /\ queue'[i] = s[i - (Len(queue) - 1)]
    <2>1. i \in 1 .. Len(queue')
      BY <1>6
    <2>2. DOMAIN queue = 1 .. Len(queue) /\ DOMAIN s = 1 .. Len(s)
      BY <1>4, <1>5
    <2>3. QED
      BY <1>6, <1>7, <2>1, <2>2
  <1>11. \A i \in DOMAIN sorted' : (i \in DOMAIN sorted /\ sorted'[i] = sorted[i])
                                   \/ (i = Len(sorted) + 1 /\ sorted'[i] = t)
    <2>1. DOMAIN sorted = 1 .. Len(sorted) /\ DOMAIN sorted' = 1 .. Len(sorted) + 1
      BY <1>4, <1>8
    <2>2. QED
      BY <1>7, <1>8, <2>1
  <1>12. 1 \in DOMAIN queue /\ DOMAIN queue \subseteq Nat /\ DOMAIN sorted \subseteq Nat /\ DOMAIN queue' \subseteq Nat
    BY <1>4, <1>6, <1>7
  <1>13. Distinct(queue')
    <2> SUFFICES ASSUME NEW i \in DOMAIN queue', NEW j \in DOMAIN queue', queue'[i] = queue'[j]
                 PROVE  i = j
      BY DEF Distinct
    <2>1. CASE /\ i + 1 \in DOMAIN queue /\ queue'[i] = queue[i + 1]
               /\ j + 1 \in DOMAIN queue /\ queue'[j] = queue[j + 1]
      <3>1. i + 1 = j + 1
        BY <1>4, <2>1 DEF Distinct
      <3>2. QED
        BY <1>12, <3>1
    <2>2. CASE /\ i - (Len(queue) - 1) \in DOMAIN s /\ queue'[i] = s[i - (Len(queue) - 1)]
               /\ j - (Len(queue) - 1) \in DOMAIN s /\ queue'[j] = s[j - (Len(queue) - 1)]
      <3>1. i - (Len(queue) - 1) = j - (Len(queue) - 1)
        BY <1>5, <2>2 DEF Distinct
      <3>2. QED
        BY <1>7, <1>12, <3>1
    <2>3. \A k \in DOMAIN queue, l \in DOMAIN s : queue[k] # s[l]
      BY <1>4, <1>5
    <2>4. QED
      BY <1>10, <2>1, <2>2, <2>3
  <1>14. Distinct(sorted')
    <2>1. \A i \in DOMAIN sorted : sorted[i] # t
      BY <1>4, <1>6, <1>12
    <2>2. QED
      BY <1>4, <1>11, <1>12, <2>1 DEF Distinct
  <1>15. \A i \in DOMAIN queue', j \in DOMAIN sorted' : queue'[i] # sorted'[j]
    <2>1. \A k \in DOMAIN queue : k # 1 => queue[k] # t
      BY <1>4, <1>6, <1>12 DEF Distinct
    <2>2. \A k \in DOMAIN s : s[k] # t /\ \A j \in DOMAIN sorted : s[k] # sorted[j]
      BY <1>4, <1>5, <1>6, <1>12
    <2>3. QED
      BY <1>4, <1>10, <1>11, <2>1, <2>2
  <1>16. \A i \in DOMAIN queue' : degree'[queue'[i]] <= 0
    <2>1. \A k \in DOMAIN queue : degree'[queue[k]] <= 0
      BY <1>4, <1>9
    <2>2. \A k \in DOMAIN s : degree'[s[k]] <= 0
      BY <1>1, <1>5
    <2>3. QED
      BY <1>10, <2>1, <2>2
  <1>17. \A i \in DOMAIN sorted' : degree'[sorted'[i]] <= 0
    <2>1. \A k \in DOMAIN sorted : degree'[sorted[k]] <= 0
      BY <1>4, <1>9
    <2>2. degree'[t] <= 0
      BY <1>4, <1>6, <1>9, <1>12
    <2>3. QED
      BY <1>11, <2>1, <2>2
  <1>18. \A c \in chain : Parents[c] \cap chain = {} => degree'[c] = InDegree(c)'
    BY <1>1, <1>3, <1>4, <1>7 DEF left, Children
  <1>19. SortInv'
    BY <1>1, <1>6, <1>8, <1>9, <1>13, <1>14, <1>15, <1>16, <1>17, <1>18 DEF SortInv, Distinct
  <1>20. ChainTypes' /\ TraceInv'
    BY <1>1 DEF ChainTypes, TraceInv, Pending
  <1>21. QED
    BY <1>1, <1>19, <1>20 DEF OrderInv, SendInv, OrphansInv, Phases

\* The other way round, a sequence has the same elements.
LEMMA Reversed ==
    ASSUME NEW T, NEW s \in Seq(T)
    PROVE  Reverse(s) \in Seq(T) /\ \A x \in ToSet(s) : x \in ToSet(Reverse(s))
  <1>1. Len(s) \in Nat /\ DOMAIN s = 1 .. Len(s) /\ \A i \in 1 .. Len(s) : s[i] \in T
    OBVIOUS
  <1>2. Reverse(s) \in [1 .. Len(s) -> T]
    BY <1>1 DEF Reverse
  <1>3. Reverse(s) \in Seq(T)
    BY <1>1, <1>2 DEF Reverse
  <1>4. ASSUME NEW i \in 1 .. Len(s) PROVE s[i] \in ToSet(Reverse(s))
    <2>1. Len(s) - i + 1 \in 1 .. Len(s) /\ Len(s) - (Len(s) - i + 1) + 1 = i
      BY <1>1
    <2>2. Reverse(s)[Len(s) - i + 1] = s[i] /\ Len(s) - i + 1 \in DOMAIN Reverse(s)
      BY <2>1 DEF Reverse
    <2>3. QED
      BY <2>2 DEF ToSet
  <1>5. QED
    BY <1>1, <1>3, <1>4 DEF ToSet

\* Among transactions some of which are related, one with children in the chain
\* has no parents in it.
LEMMA RootOfRelated ==
    ASSUME chain \subseteq Txs, NEW c \in chain, NEW p \in chain, p \in Parents[c]
    PROVE  \E q \in chain : Children(q) # {} /\ Parents[q] \cap chain = {}
  <1>1. PICK rank \in [Txs -> 0 .. Cardinality(Txs)] :
            \A t \in Txs : \A x \in Parents[t] : rank[x] < rank[t]
    BY ChainAssumption
  <1>2. \A t \in Txs : rank[t] \in Nat
    BY <1>1, FS_CardinalityType, ChainAssumption
  <1> DEFINE K == {q \in chain : Children(q) # {}}
             ranks == {rank[q] : q \in K}
  <1>3. p \in K
    BY DEF Children
  <1>4. ranks \subseteq Nat /\ ranks # {}
    BY <1>2, <1>3
  <1>5. PICK r \in ranks : \A o \in ranks : r <= o
    BY <1>4, LeastNatural
  <1>6. PICK q \in K : r = rank[q]
    BY <1>5
  <1>7. ASSUME NEW x \in Parents[q] \cap chain PROVE FALSE
    <2>1. x \in K
      BY <1>6, <1>7 DEF Children
    <2>2. rank[x] < rank[q] /\ rank[q] <= rank[x]
      BY <1>1, <1>5, <1>6, <1>7, <2>1
    <2>3. QED
      BY <1>2, <1>6, <1>7, <2>2
  <1>8. QED
    BY <1>6, <1>7

LEMMA SortDoneStep == ASSUME ChainInv, SortDone PROVE ChainInv'
  <1> USE DEF ChainInv
  <1>1. /\ phase = "sort"
        /\ UNCHANGED <<unreliable, network, stored, frames, visited, gap, chain, orphans, others>>
    BY DEF SortDone, sorting
  <1>2. ChainTypes' /\ TraceInv' /\ (~gap => OrphansInv)'
    BY <1>1 DEF SortDone, ChainTypes, TraceInv, Pending, OrphansInv
  <1>3. CASE phase' = "circular"
    BY <1>1, <1>2, <1>3 DEF SortInv, OrderInv, SendInv, Phases
  <1>4. CASE phase' = "ordered" /\ sorted' = Reverse(sorted) /\ Len(sorted) = Cardinality(chain)
    <2>1. IsFiniteSet(chain) /\ \A t : InDegree(t) \in Nat
      BY ChainIsFinite
    <2>2. \A t \in chain : t \in ToSet(sorted)
      BY <1>1, <1>4, <2>1, AllOfThem DEF SortInv
    <2>3. ASSUME NEW t \in chain, Parents[t] \cap chain = {} PROVE Children(t) = {}
      <3>1. degree[t] <= 0 /\ degree[t] = InDegree(t)
        BY <1>1, <2>2, <2>3 DEF SortInv, ToSet
      <3>2. Cardinality(Children(t)) = 0
        BY <2>1, <3>1 DEF InDegree
      <3>3. IsFiniteSet(Children(t))
        BY <2>1, FS_Subset DEF Children
      <3>4. QED
        BY <3>2, <3>3, FS_EmptySet
    <2>4. Unrelated
      BY <2>3, RootOfRelated DEF Unrelated, ChainTypes
    <2>5. sorted' \in Seq(chain) /\ \A t \in chain : t \in ToSet(sorted')
      BY <1>1, <1>4, <2>2, Reversed DEF SortInv
    <2>6. OrderInv'
      BY <1>1, <2>4, <2>5 DEF OrderInv, Unrelated
    <2>7. QED
      BY <1>1, <1>2, <1>4, <2>6 DEF SortInv, SendInv, Phases
  <1>5. QED
    BY <1>3, <1>4 DEF SortDone

-----------------------------------------------------------------------------
(* Sending *)

\* An answer that counts as success means that the node has the transaction,
\* and it refuses one for want of a parent only if it does not have that.
LEMMA Answers ==
    ASSUME NEW t \in Txs, network \subseteq Txs, NEW r \in Broadcasts(t)
    PROVE  /\ network \subseteq r.net /\ r.net \subseteq Txs
           /\ Succeeds(r.says) => t \in r.net
           /\ r.says = "orphan" => /\ r.net = network /\ t \notin network
                                   /\ \E p \in Parents[t] : p \notin network
  <1>1. \/ r = [says |-> "exists", net |-> network] /\ t \in network
        \/ r = [says |-> "accepted", net |-> network \cup {t}]
        \/ /\ r = [says |-> "orphan", net |-> network]
           /\ t \notin network /\ ~(Parents[t] \subseteq network)
        \/ r.says = "lost" /\ r.net \in {network, network \cup {t}}
    BY DEF Broadcasts, Answer, Lost
  <1>2. QED
    BY <1>1 DEF Succeeds

LEMMA StartSendStep == ASSUME ChainInv, phase = "ordered", StartSend PROVE ChainInv'
  <1> USE DEF ChainInv
  <1>1. /\ phase' = "send" /\ unsent' = sorted /\ orphans' = {}
        /\ UNCHANGED <<network, unreliable, stored, frames, visited, gap, chain, sorted, others>>
    BY DEF StartSend, sending
  <1>2. ChainTypes' /\ TraceInv' /\ OrphansInv'
    BY <1>1 DEF ChainTypes, TraceInv, Pending, OrphansInv
  <1>3. OrderInv' /\ SendInv'
    BY <1>1 DEF OrderInv, SendInv, Unrelated
  <1>4. QED
    BY <1>1, <1>2, <1>3 DEF SortInv, Phases

LEMMA RebroadcastStep == ASSUME ChainInv, Rebroadcast PROVE ChainInv'
  <1> USE DEF ChainInv
  <1> DEFINE t == Head(unsent)
  <1>1. /\ phase = "send" /\ phase' = "send" /\ unsent # <<>> /\ unsent' = Tail(unsent)
        /\ UNCHANGED <<unreliable, stored, frames, visited, gap, chain, sorted, others>>
    BY DEF Rebroadcast, sending
  <1>2. PICK r \in Broadcasts(t) :
          /\ network' = r.net
          /\ failed' = IF Succeeds(r.says) THEN failed ELSE failed \cup {t}
          /\ orphans' = IF r.says = "orphan" THEN orphans \cup {t} ELSE orphans
    BY DEF Rebroadcast
  <1>3. /\ unsent \in Seq(chain) /\ Unrelated
        /\ \A c \in chain : c \in ToSet(unsent) \/ c \in failed \/ c \in network
    BY <1>1 DEF SendInv, OrderInv
  <1>4. /\ t \in chain /\ unsent' \in Seq(chain) /\ t = unsent[1]
        /\ Len(unsent') = Len(unsent) - 1
        /\ \A i \in 1 .. Len(unsent') : unsent'[i] = unsent[i + 1]
    BY <1>1, <1>3, HeadTailProperties
  <1> HIDE DEF t
  <1>5. /\ network \subseteq network' /\ network' \subseteq Txs
        /\ t \in failed' \/ t \in network'
        /\ orphans' # orphans => orphans' = orphans \cup {t} /\ \E p \in Parents[t] : p \notin network
    BY <1>2, <1>4, Answers DEF ChainTypes
  <1>6. \A c \in chain : c \in ToSet(unsent') \/ c \in failed' \/ c \in network'
    <2> SUFFICES ASSUME NEW c \in ToSet(unsent), c # t PROVE c \in ToSet(unsent')
      BY <1>2, <1>3, <1>5
    <2>1. PICK i \in DOMAIN unsent : unsent[i] = c
      BY DEF ToSet
    <2>2. Len(unsent) \in Nat /\ i \in 1 .. Len(unsent) /\ i # 1
      BY <1>3, <1>4, <2>1
    <2>3. i - 1 \in 1 .. Len(unsent') /\ i - 1 \in DOMAIN unsent' /\ (i - 1) + 1 = i
      BY <1>4, <2>2
    <2>4. unsent'[i - 1] = c
      BY <1>4, <2>1, <2>3
    <2>5. QED
      BY <2>3, <2>4 DEF ToSet
  <1>7. ChainTypes' /\ TraceInv'
    BY <1>1, <1>2, <1>4, <1>5 DEF ChainTypes, TraceInv, Pending
  <1>8. (~gap => OrphansInv)'
    <2> SUFFICES ASSUME ~gap, orphans' # orphans, NEW p \in Parents[t], p \notin network
                 PROVE  p \notin stored
      BY <1>1, <1>5 DEF OrphansInv
    <2>1. p \in visited
      BY <1>1, <1>4 DEF TraceInv, Pending
    <2>2. p \notin chain
      BY <1>3, <1>4 DEF Unrelated
    <2>3. QED
      BY <2>1, <2>2 DEF TraceInv
  <1>9. QED
    BY <1>1, <1>3, <1>4, <1>6, <1>7, <1>8 DEF SortInv, OrderInv, SendInv, Unrelated, Phases

LEMMA SendDoneStep == ASSUME ChainInv, SendDone PROVE ChainInv'
  <1>1. /\ phase = "send" /\ phase' = "sent" /\ unsent = <<>>
        /\ UNCHANGED <<network, failed, orphans, unreliable, stored, frames, visited, gap, chain, sorted, others>>
    BY DEF SendDone, sending
  <1>2. ToSet(unsent) = {}
    BY <1>1 DEF ToSet
  <1>3. QED
    BY <1>1, <1>2 DEF ChainInv, ChainTypes, TraceInv, Pending, SortInv, OrderInv, SendInv, Unrelated,
                      OrphansInv, Phases

\* The network gets a transaction, from the caller or from another sender.
LEMMA NetworkStep ==
    ASSUME ChainInv, network \subseteq network', network' \subseteq Txs, others' \in Nat,
           UNCHANGED <<unreliable, stored, phase, frames, visited, gap, chain, degree, queue,
                       sorted, unsent, successful, failed, orphans>>
    PROVE  ChainInv'
  BY DEF ChainInv, ChainTypes, TraceInv, Pending, SortInv, OrderInv, SendInv, Distinct, Unrelated,
         InDegree, Children, OrphansInv, Phases

-----------------------------------------------------------------------------
\* What is pending stays so, until tracing breaks off.
LEMMA RecoverKeepsPending ==
    ASSUME ChainInv, Recover, NEW x, Pending(x)
    PROVE  gap' \/ Pending(x)'
  <1>1. ASSUME NEW t \in Txs, Visit(t) PROVE Pending(x)'
    BY <1>1, VisitFrames DEF ChainInv
  <1>2. CASE LevelDone
    BY <1>2, LevelFrames DEF ChainInv
  <1>3. CASE SortNext \/ SortDone \/ Rebroadcast \/ SendDone
    BY <1>3 DEF SortNext, SortDone, Rebroadcast, SendDone, sorting, sending, Pending
  <1>4. ASSUME NEW t \in Txs, VisitFails(t) PROVE gap'
    BY <1>4 DEF VisitFails
  <1>5. QED
    BY <1>1, <1>2, <1>3, <1>4 DEF Recover

\* Recovery only ever adds to the network, and leaves the rest of it alone.
LEMMA RecoverOnlyAdds ==
    ASSUME ChainInv, Recover
    PROVE  /\ network \subseteq network'
           /\ UNCHANGED <<unreliable, stored, others>>
           /\ (phase \notin {"trace", "send"}) => network' = network
  <1>1. CASE Rebroadcast
    <2>1. Head(unsent) \in Txs
      BY <1>1, HeadTailProperties DEF Rebroadcast, ChainInv, SendInv, ChainTypes
    <2>2. QED
      BY <1>1, <2>1, Answers DEF Rebroadcast, sending, ChainInv, ChainTypes
  <1>2. QED
    BY <1>1 DEF Recover, Visit, VisitFails, LevelDone, SortNext, SortDone, SendDone, building, sorting, sending

\* The invariant of the recovery is kept by each of its steps.
THEOREM RecoverKeepsChain == ChainInv /\ Recover => ChainInv'
  BY VisitStep, VisitFailsStep, LevelDoneStep, SortNextStep, SortDoneStep, RebroadcastStep, SendDoneStep
  DEF Recover

\* The sort takes no two transactions of which one spends the other: what is in
\* order was in order before (rebuilder.go:206-218).
THEOREM SortsOnlyUnrelated ==
    ChainInv /\ phase \in {"ordered", "send", "sent"} =>
        \A t \in chain : Parents[t] \cap chain = {}
  BY DEF ChainInv, OrderInv, Unrelated

\* What the recovery promises its callers, in every state of the invariant.
THEOREM ChainPromises == ChainInv => ChainIsComplete /\ OrphansCannotBeHelped /\ SuccessMeansRecovered
  <1> SUFFICES ASSUME ChainInv PROVE ChainIsComplete /\ OrphansCannotBeHelped /\ SuccessMeansRecovered
    OBVIOUS
  <1> USE DEF ChainInv
  <1>1. ChainIsComplete
    <2> SUFFICES ASSUME ~gap, phase # "trace", NEW t \in chain, NEW p \in Parents[t]
                 PROVE  p \in chain \cup network \cup (Txs \ stored)
      BY DEF ChainIsComplete
    <2>1. p \in visited
      BY DEF TraceInv, Pending
    <2>2. QED
      BY <2>1 DEF TraceInv
  <1>2. OrphansCannotBeHelped
    BY DEF OrphansCannotBeHelped, OrphansInv
  <1>3. SuccessMeansRecovered
    BY DEF SuccessMeansRecovered, SendInv
  <1>4. QED
    BY <1>1, <1>2, <1>3

-----------------------------------------------------------------------------
(* What a sort that gives up and a chain that fails say of the chain *)

\* Unless some of it is related, the sort has all of the chain in hand, and it
\* gives up only when something is.
SortsAll ==
    /\ phase = "sort" /\ Unrelated => \A t \in chain : t \in ToSet(queue) \/ t \in ToSet(sorted)
    /\ phase = "circular" => ~Unrelated

\* What the node took is there, and with answers that are not lost it refuses
\* only for want of a parent.
FailuresInv ==
    /\ successful \subseteq network
    /\ ~unreliable => failed \subseteq orphans
    /\ phase \in {"send", "sent"} => orphans \subseteq chain

\* A row of all of a finite set has each of it.
LEMMA AllInARow ==
    ASSUME NEW T, IsFiniteSet(T), NEW S \in SUBSET T, NEW s \in SetToSeqs(S)
    PROVE  \A x \in S : x \in ToSet(s)
  <1>1. IsFiniteSet(S) /\ Cardinality(S) \in Nat
    BY FS_Subset, FS_CardinalityType
  <1>2. s \in Seq(S) /\ Distinct(s) /\ Len(s) = Cardinality(S)
    <2>1. s \in [1 .. Cardinality(S) -> S] /\ Distinct(s)
      BY DEF SetToSeqs, Distinct
    <2> QED
      BY <1>1, <2>1
  <1> QED
    BY <1>1, <1>2, AllOfThem

\* A sequence that has each of a finite set, and each once, is as long as the
\* set is large.
LEMMA OnceEach ==
    ASSUME NEW T, IsFiniteSet(T), NEW s \in Seq(T), Distinct(s), \A x \in T : x \in ToSet(s)
    PROVE  Len(s) = Cardinality(T)
  <1>1. Len(s) \in Nat /\ DOMAIN s = 1 .. Len(s) /\ s \in [1 .. Len(s) -> T]
    OBVIOUS
  <1>2. s \in Injection(1 .. Len(s), T)
    BY <1>1 DEF Distinct, Injection, IsInjective
  <1>3. s \in Surjection(1 .. Len(s), T)
    BY <1>1 DEF Surjection, ToSet
  <1>4. s \in Bijection(1 .. Len(s), T)
    BY <1>2, <1>3 DEF Bijection
  <1>5. IsFiniteSet(1 .. Len(s)) /\ Cardinality(1 .. Len(s)) = Len(s)
    BY <1>1, FS_Interval
  <1>6. Cardinality(1 .. Len(s)) = Cardinality(T)
    BY <1>4, <1>5, FS_Bijection DEF ExistsBijection
  <1> QED
    BY <1>5, <1>6

\* In an unrelated chain every transaction is queued at the beginning.
LEMMA StartSortAll == ASSUME ChainInv, StartSort PROVE SortsAll'
  <1> DEFINE S == {t \in chain : InDegree(t) = 0}
  <1>1. phase' = "sort" /\ chain' = chain /\ queue' \in SetToSeqs(S)
    BY DEF StartSort, sorting
  <1> SUFFICES ASSUME Unrelated, NEW t \in chain PROVE t \in ToSet(queue')
    BY <1>1 DEF SortsAll, Unrelated
  <1>2. IsFiniteSet(chain)
    BY ChainIsFinite DEF ChainInv
  <1>3. Children(t) = {}
    BY DEF Unrelated, Children
  <1>4. t \in S
    BY <1>3, FS_EmptySet DEF InDegree
  <1> HIDE DEF S
  <1>5. S \in SUBSET chain
    BY DEF S
  <1> QED
    BY <1>1, <1>2, <1>4, <1>5, AllInARow

\* It moves from the queue to what is sorted.
LEMMA SortNextAll == ASSUME ChainInv, SortsAll, SortNext PROVE SortsAll'
  <1> DEFINE t == Head(queue)
  <1>1. /\ phase = "sort" /\ phase' = "sort" /\ queue # <<>>
        /\ sorted' = Append(sorted, t) /\ chain' = chain
        /\ queue \in Seq(chain) /\ sorted \in Seq(chain)
    BY DEF SortNext, sorting, ChainInv, SortInv
  <1>2. PICK N \in SUBSET chain : \E s \in SetToSeqs(N) : queue' = Tail(queue) \o s
    BY DEF SortNext, Children
  <1>. PICK s \in SetToSeqs(N) : queue' = Tail(queue) \o s
    BY <1>2
  <1>3. IsFiniteSet(chain)
    BY ChainIsFinite DEF ChainInv
  <1>4. s \in Seq(chain)
    BY <1>3, InARow
  <1>5. /\ Len(queue') = Len(queue) - 1 + Len(s) /\ t = queue[1] /\ queue' \in Seq(chain)
        /\ \A i \in 1 .. Len(queue') :
               queue'[i] = IF i <= Len(queue) - 1 THEN queue[i + 1] ELSE s[i - (Len(queue) - 1)]
    BY <1>1, <1>4, Queued
  <1>6. t \in chain /\ Len(queue) \in Nat /\ Len(queue) > 0 /\ Len(s) \in Nat /\ Len(sorted) \in Nat
    BY <1>1, <1>4, <1>5
  <1>7. /\ sorted' \in Seq(chain) /\ Len(sorted') = Len(sorted) + 1
        /\ \A i \in 1 .. Len(sorted) : sorted'[i] = sorted[i]
        /\ sorted'[Len(sorted) + 1] = t
    BY <1>1, <1>6, Appended
  <1> HIDE DEF t
  <1>8. ASSUME NEW x \in ToSet(sorted) PROVE x \in ToSet(sorted')
    <2>1. PICK i \in 1 .. Len(sorted) : sorted[i] = x
      BY <1>1 DEF ToSet
    <2>2. i \in DOMAIN sorted' /\ sorted'[i] = x
      BY <1>6, <1>7, <2>1
    <2> QED
      BY <2>2 DEF ToSet
  <1>9. t \in ToSet(sorted')
    <2>1. Len(sorted) + 1 \in DOMAIN sorted'
      BY <1>6, <1>7
    <2> QED
      BY <1>7, <2>1 DEF ToSet
  <1>10. ASSUME NEW x \in ToSet(queue), x # t PROVE x \in ToSet(queue')
    <2>1. PICK i \in 1 .. Len(queue) : queue[i] = x
      BY <1>1 DEF ToSet
    <2>2. i # 1
      BY <1>5, <1>10, <2>1
    <2>3. i - 1 \in 1 .. Len(queue') /\ i - 1 <= Len(queue) - 1 /\ (i - 1) + 1 = i
      BY <1>5, <1>6, <2>1, <2>2
    <2>4. i - 1 \in DOMAIN queue' /\ queue'[i - 1] = x
      BY <1>5, <2>1, <2>3
    <2> QED
      BY <2>4 DEF ToSet
  <1> QED
    BY <1>1, <1>8, <1>9, <1>10 DEF SortsAll, Unrelated

\* When the queue is empty, the sort has all or gives up for a good reason.
LEMMA SortDoneAll == ASSUME ChainInv, SortsAll, SortDone PROVE SortsAll'
  <1>1. /\ phase = "sort" /\ queue = <<>> /\ chain' = chain
        /\ phase' = "ordered" \/ (phase' = "circular" /\ Len(sorted) # Cardinality(chain))
    BY DEF SortDone, sorting
  <1>2. ASSUME Unrelated PROVE Len(sorted) = Cardinality(chain)
    <2>1. ToSet(queue) = {}
      BY <1>1 DEF ToSet
    <2>2. \A t \in chain : t \in ToSet(sorted)
      BY <1>1, <1>2, <2>1 DEF SortsAll
    <2>3. IsFiniteSet(chain) /\ sorted \in Seq(chain) /\ Distinct(sorted)
      BY <1>1, ChainIsFinite DEF ChainInv, SortInv
    <2> QED
      BY <2>2, <2>3, OnceEach
  <1> QED
    BY <1>1, <1>2 DEF SortsAll, Unrelated

\* Each step of the recovery keeps what it says of the sort.
LEMMA RecoverSortsAll == ASSUME ChainInv, SortsAll, Recover PROVE SortsAll'
  <1>1. CASE SortNext
    BY <1>1, SortNextAll
  <1>2. CASE SortDone
    BY <1>2, SortDoneAll
  <1>3. CASE LevelDone \/ \E t \in Txs : Visit(t) \/ VisitFails(t)
    <2>1. phase' \in {"trace", "traced", "broken"}
      BY <1>3 DEF Visit, VisitFails, LevelDone
    <2> QED
      BY <2>1 DEF SortsAll
  <1>4. CASE Rebroadcast \/ SendDone
    <2>1. phase' \in {"send", "sent"}
      BY <1>4 DEF Rebroadcast, SendDone
    <2> QED
      BY <2>1 DEF SortsAll
  <1> QED
    BY <1>1, <1>2, <1>3, <1>4 DEF Recover

\* And what it says of what the node took and refused.
LEMMA RecoverFailures == ASSUME ChainInv, FailuresInv, Recover PROVE FailuresInv'
  <1>1. CASE Rebroadcast
    <2> DEFINE t == Head(unsent)
    <2>1. /\ phase = "send" /\ phase' = "send" /\ t \in chain /\ t \in Txs
          /\ UNCHANGED <<unreliable, chain>> /\ network \subseteq Txs
      BY <1>1, HeadTailProperties DEF Rebroadcast, sending, ChainInv, SendInv, ChainTypes
    <2>2. PICK r \in Broadcasts(t) :
            /\ network' = r.net
            /\ successful' = IF Succeeds(r.says) THEN successful \cup {t} ELSE successful
            /\ failed' = IF Succeeds(r.says) THEN failed ELSE failed \cup {t}
            /\ orphans' = IF r.says = "orphan" THEN orphans \cup {t} ELSE orphans
      BY <1>1 DEF Rebroadcast
    <2>3. network \subseteq r.net /\ (Succeeds(r.says) => t \in r.net)
      BY <2>1, <2>2, Answers
    <2>4. ~unreliable => Succeeds(r.says) \/ r.says = "orphan"
      BY <2>2 DEF Broadcasts, Answer, Lost, Succeeds
    <2> HIDE DEF t
    <2> QED
      BY <2>1, <2>2, <2>3, <2>4 DEF FailuresInv
  <1>2. CASE SendDone
    BY <1>2 DEF SendDone, sending, FailuresInv
  <1>3. CASE SortNext \/ SortDone
    <2>1. phase' \in {"sort", "circular", "ordered"} /\ UNCHANGED <<unreliable, network, successful, failed, orphans>>
      BY <1>3 DEF SortNext, SortDone, sorting
    <2> QED
      BY <2>1 DEF FailuresInv
  <1>4. CASE LevelDone \/ \E t \in Txs : Visit(t) \/ VisitFails(t)
    <2>1. phase' \in {"trace", "traced", "broken"} /\ UNCHANGED <<unreliable, network, successful, failed, orphans>>
      BY <1>4 DEF Visit, VisitFails, LevelDone, building
    <2> QED
      BY <2>1 DEF FailuresInv
  <1> QED
    BY <1>1, <1>2, <1>3, <1>4 DEF Recover

-----------------------------------------------------------------------------
(* Types *)

\* How deep the recursion goes.
LEMMA VisitDepth ==
    ASSUME ChainInv, TypeOK, NEW t \in Txs, Visit(t)
    PROVE  Len(frames') <= MaxDepth + 2
  <1> DEFINE e == Last(frames) \ {t}
             rest == Front(frames) \o <<e>>
  <1>1. /\ frames # <<>> /\ frames \in Seq(SUBSET Txs) /\ Len(frames) <= MaxDepth + 1
        /\ Parents[t] \in SUBSET Txs
        /\ frames' = rest \/ frames' = Append(rest, Parents[t])
    BY ChainAssumption DEF Visit, ChainInv, ChainTypes
  <1>2. e \in SUBSET Txs
    BY <1>1, Fronted
  <1>3. rest \in Seq(SUBSET Txs) /\ Len(rest) = Len(frames)
    BY <1>1, <1>2, Replaced
  <1> HIDE DEF rest
  <1>4. Len(Append(rest, Parents[t])) = Len(rest) + 1
    BY <1>1, <1>3, Appended
  <1>5. MaxDepth \in Nat /\ Len(frames) \in Nat
    BY <1>1, ChainAssumption
  <1> QED
    BY <1>1, <1>3, <1>4, <1>5

\* Sequences of some transactions are sequences of transactions.
LEMMA SequencesOf ==
    ASSUME NEW S, S \subseteq Txs, NEW s \in Seq(S) PROVE s \in Seq(Txs)
  OBVIOUS

\* A step of the recovery keeps the types.
LEMMA RecoverTypes == ASSUME ChainInv, ChainInv', TypeOK, Recover PROVE TypeOK'
  <1>1. /\ network' \subseteq Txs /\ chain' \subseteq Txs /\ visited' \subseteq Txs /\ orphans' \subseteq Txs
        /\ gap' \in BOOLEAN /\ unreliable' \in BOOLEAN /\ phase' \in Phases
        /\ frames' \in Seq(SUBSET Txs)
        /\ UNCHANGED <<stored, others>>
    BY RecoverOnlyAdds DEF ChainInv, ChainTypes
  <1> DEFINE Depth == Len(frames) <= MaxDepth + 2
             Sorts == /\ degree \in [DOMAIN degree -> Int] /\ DOMAIN degree \subseteq Txs
                      /\ {queue, sorted} \subseteq Seq(Txs)
             Sends == unsent \in Seq(Txs) /\ successful \subseteq Txs /\ failed \subseteq Txs
  <1>2. Depth /\ Sorts /\ Sends
    BY DEF TypeOK
  <1>3. SUFFICES Depth' /\ Sorts' /\ Sends'
    BY <1>1 DEF TypeOK
  <1> HIDE DEF Depth, Sorts, Sends
  <1>4. CASE LevelDone \/ \E t \in Txs : Visit(t) \/ VisitFails(t)
    <2>1. Depth'
      <3>1. CASE \E t \in Txs : Visit(t)
        BY <3>1, VisitDepth DEF Depth
      <3>2. CASE \E t \in Txs : VisitFails(t)
        BY <3>2, ChainAssumption DEF Depth, VisitFails
      <3>3. CASE LevelDone
        BY <1>2, <3>3, LevelFrames, ChainAssumption DEF Depth, ChainInv
      <3> QED
        BY <1>4, <3>1, <3>2, <3>3
    <2>2. UNCHANGED <<degree, queue, sorted, unsent, successful, failed>>
      BY <1>4 DEF LevelDone, Visit, VisitFails, building
    <2> QED
      BY <1>2, <2>1, <2>2 DEF Sorts, Sends
  <1>5. CASE SortNext
    <2>1. phase = "sort" /\ phase' = "sort" /\ chain' = chain
      BY <1>5 DEF SortNext, sorting
    <2>2. Sorts'
      <3>1. degree' \in [chain -> Int] /\ queue' \in Seq(chain) /\ sorted' \in Seq(chain)
        BY <2>1 DEF ChainInv, SortInv
      <3>2. queue' \in Seq(Txs) /\ sorted' \in Seq(Txs) /\ DOMAIN degree' = chain
        BY <1>1, <2>1, <3>1, SequencesOf
      <3> QED
        BY <1>1, <2>1, <3>1, <3>2 DEF Sorts
    <2>3. UNCHANGED <<frames, unsent, successful, failed>>
      BY <1>5 DEF SortNext, sorting
    <2> QED
      BY <1>2, <2>2, <2>3 DEF Depth, Sends
  <1>6. CASE SortDone
    <2>1. sorted' = sorted \/ sorted' = Reverse(sorted)
      BY <1>6 DEF SortDone
    <2>2. sorted' \in Seq(Txs)
      BY <1>2, <2>1, Reversed DEF Sorts
    <2>3. UNCHANGED <<frames, degree, queue, unsent, successful, failed>>
      BY <1>6 DEF SortDone, sorting
    <2> QED
      BY <1>2, <2>2, <2>3 DEF Depth, Sends, Sorts
  <1>7. CASE Rebroadcast
    <2>1. /\ unsent \in Seq(Txs) /\ unsent # <<>> /\ unsent' = Tail(unsent)
          /\ successful' \subseteq successful \cup {Head(unsent)}
          /\ failed' \subseteq failed \cup {Head(unsent)}
          /\ UNCHANGED <<frames, degree, queue, sorted>>
      BY <1>2, <1>7 DEF Rebroadcast, sending, Sends
    <2>2. Head(unsent) \in Txs /\ unsent' \in Seq(Txs)
      BY <2>1, HeadTailProperties
    <2> QED
      BY <1>2, <2>1, <2>2 DEF Depth, Sends, Sorts
  <1>8. CASE SendDone
    BY <1>2, <1>8 DEF SendDone, sending, Depth, Sends, Sorts
  <1> QED
    BY <1>4, <1>5, <1>6, <1>7, <1>8 DEF Recover

\* So does beginning it, the sort or the sending.
LEMMA BeginTypes ==
    ASSUME ChainInv, ChainInv', TypeOK,
           StartSort \/ StartSend \/ \E t \in Txs : \E seen, found : Trace(t, seen, found)
    PROVE  TypeOK'
  <1>1. /\ network' \subseteq Txs /\ chain' \subseteq Txs /\ visited' \subseteq Txs /\ orphans' \subseteq Txs
        /\ gap' \in BOOLEAN /\ unreliable' \in BOOLEAN /\ phase' \in Phases
        /\ frames' \in Seq(SUBSET Txs)
    BY DEF ChainInv, ChainTypes
  <1>2. UNCHANGED <<stored, others>>
    BY DEF StartSort, StartSend, Trace, sorting, sending, building
  <1>3. CASE StartSort
    <2>1. phase' = "sort" /\ chain' = chain /\ UNCHANGED <<frames, unsent, successful, failed>>
      BY <1>3 DEF StartSort, sorting
    <2>2. degree' \in [chain -> Int] /\ queue' \in Seq(chain) /\ sorted' \in Seq(chain)
      BY <2>1 DEF ChainInv, SortInv
    <2>3. queue' \in Seq(Txs) /\ sorted' \in Seq(Txs) /\ DOMAIN degree' = chain
      BY <1>1, <2>1, <2>2, SequencesOf
    <2> QED
      BY <1>1, <1>2, <2>1, <2>2, <2>3 DEF TypeOK
  <1>4. CASE StartSend
    <2>1. /\ unsent' = sorted /\ successful' = {} /\ failed' = {}
          /\ UNCHANGED <<frames, degree, queue, sorted>>
      BY <1>4 DEF StartSend, sending
    <2> QED
      BY <1>1, <1>2, <2>1 DEF TypeOK
  <1>5. CASE \E t \in Txs : \E seen, found : Trace(t, seen, found)
    <2>1. UNCHANGED <<degree, queue, sorted, unsent, successful, failed>> /\ Len(frames') = 1
      BY <1>5 DEF Trace, building
    <2> QED
      BY <1>1, <1>2, <2>1, ChainAssumption DEF TypeOK
  <1> QED
    BY <1>3, <1>4, <1>5
=============================================================================
