------------------------ MODULE SemanticIndexProofs -------------------------
(***************************************************************************)
(* Vectors and searches, for any memories, servers, spaces and bounds: no  *)
(* memory is forgotten outside of a server's space but where the code has   *)
(* no cause to embed it, and a search that was found ready leaves nothing  *)
(* out.                                                                    *)
(***************************************************************************)
EXTENDS SemanticIndex, FiniteSetTheorems, WellFoundedInduction, TLAPS

-----------------------------------------------------------------------------
(* Pages.                                                                  *)

\* A set of naturals that is not empty has a least member.
LEMMA Least ==
    ASSUME NEW T, T \subseteq Nat, T # {}
    PROVE  \E x \in T : \A y \in T : x <= y
<1> DEFINE R == {p \in Nat \X Nat : p[1] < p[2]}
<1>1. OpToRel(<, Nat) = R
  BY DEF OpToRel
<1>2. IsWellFoundedOn(R, Nat)
  BY <1>1, NatLessThanWellFounded
<1>3. PICK x \in T : \A y \in T : <<y, x>> \notin R
  BY <1>2, WFMin
<1>4. ASSUME NEW y \in T PROVE x <= y
  <2>1. x \in Nat /\ y \in Nat /\ <<y, x>> \notin R
    BY <1>3
  <2>2. ~(y < x)
    BY <2>1
  <2> QED
    BY <2>1, <2>2
<1> QED
  BY <1>4

\* The first n of S are members that come before every other member.
LEMMA FirstComesFirst ==
    ASSUME NEW S \in SUBSET Memory, NEW n \in Nat \ {0}
    PROVE  /\ First(S, n) \subseteq S
           /\ \A m \in S \ First(S, n) : \A k \in First(S, n) : k < m
           /\ S # {} => First(S, n) # {}
<1> DEFINE Before(m) == {k \in S : k < m}
<1>1. S \subseteq Nat /\ \A m \in S : IsFiniteSet(Before(m)) /\ Cardinality(Before(m)) \in Nat
  BY SemanticIndexAssumption, FS_Subset, FS_CardinalityType DEF SemanticIndexAssumption
<1>2. \A m \in S : m \in First(S, n) <=> Cardinality(Before(m)) < n
  BY DEF First
<1>3. First(S, n) \subseteq S
  BY DEF First
<1>4. ASSUME NEW m \in S \ First(S, n), NEW k \in First(S, n) PROVE k < m
  <2>1. m \in S /\ k \in S /\ m \in Nat /\ k \in Nat /\ m # k
    BY <1>1, <1>3, <1>4
  <2>2. CASE m < k
    <3>1. Before(m) \subseteq Before(k)
      <4>1. ASSUME NEW j \in S, j < m PROVE j < k
        <5>1. j \in Nat
          BY <1>1
        <5> QED
          BY <2>1, <2>2, <4>1, <5>1
      <4> QED
        BY <4>1
    <3>2. /\ IsFiniteSet(Before(k)) /\ Cardinality(Before(m)) \in Nat
          /\ Cardinality(Before(k)) \in Nat
      BY <1>1, <2>1
    <3> HIDE DEF Before
    <3>3. Cardinality(Before(m)) <= Cardinality(Before(k))
      BY <3>1, <3>2, FS_Subset
    <3>4. Cardinality(Before(k)) < n /\ ~(Cardinality(Before(m)) < n)
      BY <1>2, <1>4, <2>1
    <3> QED
      BY <3>2, <3>3, <3>4
  <2> QED
    BY <2>1, <2>2
<1>5. ASSUME S # {} PROVE First(S, n) # {}
  <2>1. PICK m \in S : \A k \in S : m <= k
    BY <1>1, <1>5, Least
  <2>2. Before(m) = {}
    <3>1. ASSUME NEW k \in S PROVE ~(k < m)
      BY <1>1, <2>1
    <3> QED
      BY <3>1
  <2>3. Cardinality(Before(m)) = 0
    BY <2>2, FS_EmptySet
  <2> QED
    BY <1>2, <2>3
<1> QED
  BY <1>3, <1>4, <1>5

\* A page holds one item of each of its memories, with the text it has now; a
\* stale memory after the cursor is in it or after all of it.
LEMMA PageIsNext ==
    ASSUME NEW space, NEW cursor \in Nat
    PROVE  /\ \A i \in Page(space, cursor) :
                /\ i.id \in Memory /\ i.id > cursor /\ Stale(i.id, space)
                /\ i = [id |-> i.id, text |-> row[i.id].text]
           /\ \A m \in Memory : m > cursor /\ Stale(m, space) =>
                /\ Page(space, cursor) # {}
                /\ \/ \E i \in Page(space, cursor) : i.id = m
                   \/ \A i \in Page(space, cursor) : i.id < m
<1> DEFINE S == {k \in Memory : k > cursor /\ Stale(k, space)}
           F == First(S, PageSize)
<1>1. Page(space, cursor) = {[id |-> m, text |-> row[m].text] : m \in F}
  BY DEF Page
<1>2. /\ F \subseteq S /\ \A m \in S \ F : \A k \in F : k < m
      /\ S # {} => F # {}
  <2>1. S \in SUBSET Memory /\ PageSize \in Nat \ {0}
    BY SemanticIndexAssumption DEF SemanticIndexAssumption
  <2> HIDE DEF S
  <2> QED
    BY <2>1, FirstComesFirst
<1>3. \A m \in S : m \in Memory /\ m > cursor /\ Stale(m, space)
  OBVIOUS
<1>4. \A m \in Memory : m > cursor /\ Stale(m, space) => m \in S
  OBVIOUS
<1> HIDE DEF S, F
<1>5. ASSUME NEW i \in Page(space, cursor)
      PROVE  i.id \in F /\ i = [id |-> i.id, text |-> row[i.id].text]
  BY <1>1
<1>6. ASSUME NEW m \in F PROVE \E i \in Page(space, cursor) : i.id = m
  <2>1. [id |-> m, text |-> row[m].text] \in Page(space, cursor)
    BY <1>1
  <2> QED
    BY <2>1
<1>7. ASSUME NEW m \in Memory, m > cursor, Stale(m, space)
      PROVE  /\ Page(space, cursor) # {}
             /\ \/ \E i \in Page(space, cursor) : i.id = m
                \/ \A i \in Page(space, cursor) : i.id < m
  <2>1. m \in S
    BY <1>4, <1>7
  <2>2. Page(space, cursor) # {}
    BY <1>2, <1>6, <2>1
  <2> QED
    BY <1>2, <1>5, <1>6, <2>1, <2>2
<1> QED
  BY <1>2, <1>3, <1>5, <1>7

-----------------------------------------------------------------------------
(* The invariant.                                                          *)
Typed ==
    /\ row \in [Memory -> Row \cup {None}]
    /\ due \subseteq Rows /\ attempts \in [Memory -> 0 .. MaxAttempts]
    /\ server \in [Server -> [up : BOOLEAN, space : Space \cup {None}]]
    /\ reindex \in [Server -> [on : BOOLEAN, cursor : Memory \cup {0}, page : SUBSET Item]]
    /\ worker \in [Server -> Task \cup {None}]
    /\ left \in [Server -> SUBSET Memory]
    /\ query \in Space \cup {None} /\ seen \in SUBSET Memory

\* A vector is of the text beside it.
VectorOfText ==
    \A m \in Memory : row[m] # None /\ row[m].vec # None => row[m].vec.text = row[m].text

\* What a search has to find, it finds; and it found it with the text it has.
SearchOK ==
    /\ query = None => ranked = None
    /\ ranked # None => ranked \subseteq Hit /\ \A h \in ranked : h.vec.space = query
    /\ \A m \in seen :
         /\ Visible(m)
         /\ ranked = None => row[m].vec # None /\ row[m].vec.space = query
         /\ ranked # None => \A h \in ranked : h.id = m => row[m].text = h.vec.text

\* What is due or leased has an attempt left, and one worker at most has the lease.
QueueOK ==
    /\ \A m \in due \cup Held : attempts[m] < MaxAttempts
    /\ \A s, p \in Server :
         /\ worker[s] # None /\ worker[s].leased /\ worker[p] # None /\ worker[p].leased
         /\ worker[s].id = worker[p].id
         => s = p

\* A server that is down works at nothing; a worker is at a memory that is there.
WorkOK(s) ==
    /\ ~server[s].up => reindex[s] = NotReindexing /\ worker[s] = None
    /\ worker[s] # None => row[worker[s].id] # None

Covered(s, m) == m \in due \cup UnderWay \cup left[s] \/ ~row[m].judged

\* A memory of a page whose text has changed since is covered, if it is stale.
PageOK(s) ==
    \A i \in reindex[s].page :
        /\ row[i.id] # None /\ i.id > reindex[s].cursor
        /\ \A j \in reindex[s].page : j.id = i.id => j = i
        /\ server[s].space # None /\ Stale(i.id, server[s].space) /\ row[i.id].text # i.text
           => Covered(s, i.id)

ComesBy(s, m) ==
    server[s].up /\ server[s].space # None /\ Stale(m, server[s].space)
    => Covered(s, m) \/ m \in Ahead(s)

ServerOK(s) == WorkOK(s) /\ PageOK(s) /\ \A m \in Memory : ComesBy(s, m)

IndexInv ==
    Typed /\ VectorOfText /\ SearchOK /\ QueueOK /\ \A s \in Server : ServerOK(s)

LEMMA Constants ==
    /\ Memory \subseteq Nat \ {0} /\ IsFiniteSet(Memory) /\ Text # {}
    /\ None \notin Vector /\ None \notin Row /\ None \notin Task /\ None \notin Space
    /\ Metadata \subseteq [hidden : BOOLEAN, noise : BOOLEAN, judged : BOOLEAN]
    /\ MaxAttempts \in Nat \ {0}
BY SemanticIndexAssumption, NoneIsNoValue
   DEF SemanticIndexAssumption, NoneIsNoValue, Space, Fits

LEMMA MemoryIsNat == Memory \subseteq Nat /\ 0 \notin Memory
BY SemanticIndexAssumption DEF SemanticIndexAssumption

LEMMA CursorIsNat == ASSUME NEW n \in Memory \cup {0} PROVE n \in Nat
<1>1. CASE n = 0
  BY <1>1
<1>2. CASE n \in Memory
  BY <1>2, MemoryIsNat
<1> QED
  BY <1>1, <1>2

LEMMA IndexInit == Init => IndexInv
<1> SUFFICES ASSUME Init PROVE IndexInv
  OBVIOUS
<1> DEFINE t == CHOOSE t \in Text : TRUE
           r(m) == [live |-> TRUE, text |-> t, hidden |-> FALSE, noise |-> FALSE,
                    judged |-> TRUE,
                    vec |-> IF m \in Legacy THEN [text |-> t, space |-> None] ELSE None]
<1>1. row = [m \in Memory |-> r(m)]
  BY DEF Init
<1>2. t \in Text
  BY Constants
<1> HIDE DEF t
<1>3. [text |-> t, space |-> None] \in Vector
  BY <1>2 DEF Vector
<1>4. \A m \in Memory : r(m) \in Row /\ (r(m).vec # None => r(m).vec.text = r(m).text)
  BY <1>2, <1>3 DEF Row
<1>5. row \in [Memory -> Row] /\ VectorOfText
  BY <1>1, <1>4 DEF VectorOfText
<1>6. NotReindexing \in [on : BOOLEAN, cursor : Memory \cup {0}, page : SUBSET Item]
  BY DEF NotReindexing
<1>7. due \subseteq Rows /\ attempts \in [Memory -> 0 .. MaxAttempts]
  <2>1. due \subseteq Rows
    BY <1>5, Constants DEF Init, Rows
  <2>2. 0 \in 0 .. MaxAttempts
    BY Constants
  <2>3. attempts = [m \in Memory |-> 0]
    BY DEF Init
  <2> QED
    BY <2>1, <2>2, <2>3
<1>8. Typed
  BY <1>5, <1>6, <1>7 DEF Init, Typed
<1>9. QueueOK
  BY <1>7, Constants DEF Init, QueueOK, Held, Rows
<1>10. ASSUME NEW s \in Server PROVE ServerOK(s)
  BY DEF Init, ServerOK, WorkOK, PageOK, ComesBy, NotReindexing
<1> QED
  BY <1>5, <1>8, <1>9, <1>10 DEF IndexInv, SearchOK, Init

-----------------------------------------------------------------------------
(* What steps leave as it is.                                              *)

RowSame(m) == row'[m] = row[m]

\* A server's reindex keeps its page and its memories, as every memory is as it
\* was and as covered, or is covered if it is stale.
LEMMA OthersOK ==
    ASSUME IndexInv, NEW s \in Server, server'[s] = server[s], reindex'[s] = reindex[s],
           \A m \in Memory : \/ RowSame(m) /\ (Covered(s, m) => Covered(s, m)')
                            \/ /\ row'[m] # None
                               /\ server[s].space # None /\ Stale(m, server[s].space)'
                                  => Covered(s, m)'
    PROVE  PageOK(s)' /\ \A m \in Memory : ComesBy(s, m)'
<1>1. PageOK(s) /\ \A m \in Memory : ComesBy(s, m)
  BY DEF IndexInv, ServerOK
<1>2. \A m \in Memory : RowSame(m) => (Stale(m, server[s].space)' <=> Stale(m, server[s].space))
  BY DEF RowSame, Stale
<1>3. \A i \in reindex[s].page : i.id \in Memory
  BY DEF IndexInv, Typed, Item
<1>4. ASSUME NEW m \in Memory PROVE ComesBy(s, m)'
  BY <1>1, <1>2 DEF ComesBy, Ahead
<1>5. PageOK(s)'
  BY <1>1, <1>2, <1>3 DEF PageOK, RowSame
<1> QED
  BY <1>4, <1>5

\* A memory stays covered that is as it was, as due, as left, and as under way.
LEMMA StaysCovered ==
    ASSUME NEW s \in Server, NEW m \in Memory, RowSame(m),
           m \in due => m \in due', m \in left[s] => m \in left'[s],
           \A p \in Server :
              worker[p] # None /\ worker[p].leased /\ worker[p].id = m /\ worker[p].text = row[m].text
              => worker'[p] = worker[p]
    PROVE  Covered(s, m) => Covered(s, m)'
<1>1. ASSUME m \in UnderWay PROVE m \in UnderWay'
  <2>1. PICK p \in Server : /\ worker[p] # None /\ worker[p].leased /\ worker[p].id = m
                            /\ row[worker[p].id].text = worker[p].text
    BY <1>1 DEF UnderWay
  <2> QED
    BY <2>1 DEF UnderWay, RowSame
<1> QED
  BY <1>1 DEF Covered, RowSame

\* A search keeps what it has to find and return.
LEMMA SearchStays ==
    ASSUME IndexInv, UNCHANGED <<query, ranked>>, seen' \subseteq seen,
           \A m \in seen' :
              /\ Visible(m)' /\ row'[m].text = row[m].text
              /\ ranked = None => row'[m].vec # None /\ row'[m].vec.space = query
    PROVE  SearchOK' /\ seen' \in SUBSET Memory
BY DEF IndexInv, Typed, SearchOK

\* So it does where rows stay.
LEMMA SearchRowsStay ==
    ASSUME IndexInv, UNCHANGED <<row, query, ranked>>, seen' \subseteq seen
    PROVE  SearchOK' /\ seen' \in SUBSET Memory
<1>1. \A m \in seen' :
         /\ Visible(m)' /\ row'[m].text = row[m].text
         /\ ranked = None => row'[m].vec # None /\ row'[m].vec.space = query
  BY DEF IndexInv, SearchOK, Visible
<1> QED
  BY <1>1, SearchStays

LEMMA HeldIsMemory ==
    ASSUME IndexInv
    PROVE  Held \subseteq Memory
BY DEF IndexInv, Typed, Held, Task

LEMMA OneRow ==
    ASSUME IndexInv, NEW m \in Memory, NEW r \in Row, row' = [row EXCEPT ![m] = r]
    PROVE  /\ row' \in [Memory -> Row \cup {None}] /\ row'[m] = r /\ r # None
           /\ \A k \in Memory \ {m} : RowSame(k)
           /\ Rows \subseteq Rows'
BY Constants DEF IndexInv, Typed, RowSame, Rows

\* A server that has no cause to embed a memory is known to have none.
LEMMA LeftByCovers ==
    ASSUME NEW m \in Memory, NEW r, left \in [Server -> SUBSET Memory], left' = LeftBy(m, r)
    PROVE  /\ left' \in [Server -> SUBSET Memory]
           /\ \A s \in Server : server[s].space # None /\ StaleRow(r, server[s].space)
                               => m \in due \cup left'[s] \/ ~r.judged
           /\ \A s \in Server, k \in Memory \ {m} : k \in left[s] => k \in left'[s]
BY DEF LeftBy, LeftOut

-----------------------------------------------------------------------------
(* The queue.                                                              *)

LEMMA EnqueueOK ==
    ASSUME IndexInv, NEW S \in SUBSET Memory, Enqueue(S), worker' = worker
    PROVE  /\ due' = due \cup S /\ attempts' \in [Memory -> 0 .. MaxAttempts]
           /\ left' \in [Server -> SUBSET Memory] /\ QueueOK'
           /\ \A s \in Server, k \in Memory \ S : k \in left[s] => k \in left'[s]
<1>1. /\ due' = due \cup S
      /\ attempts' = [m \in Memory |-> IF m \in S THEN 0 ELSE attempts[m]]
      /\ left' = [s \in Server |-> left[s] \ S]
  BY DEF Enqueue
<1>2. attempts' \in [Memory -> 0 .. MaxAttempts]
  BY <1>1, Constants DEF IndexInv, Typed
<1>3. Held' = Held /\ Held \subseteq Memory
  BY DEF Held, IndexInv, Typed, Task
<1>4. ASSUME NEW m \in due' \cup Held' PROVE attempts'[m] < MaxAttempts
  <2>1. m \in Memory
    BY <1>1, <1>3, <1>4 DEF IndexInv, Typed, Rows
  <2>2. m \notin S => attempts[m] < MaxAttempts
    BY <1>1, <1>3, <1>4 DEF IndexInv, QueueOK
  <2> QED
    BY <1>1, <2>1, <2>2, Constants
<1>5. QueueOK'
  BY <1>4 DEF IndexInv, QueueOK
<1> QED
  BY <1>1, <1>2, <1>5 DEF IndexInv, Typed

\* A memory that was charged is due again, or left by the servers.
LEMMA ChargeOK ==
    ASSUME IndexInv, NEW m \in Memory \ due, row[m] # None, attempts[m] < MaxAttempts, Charge(m),
           row' = row, server' = server, m \notin Held', Held' \subseteq Held
    PROVE  /\ due' \subseteq Rows' /\ attempts' \in [Memory -> 0 .. MaxAttempts]
           /\ left' \in [Server -> SUBSET Memory]
           /\ \A k \in due' \cup Held' : attempts'[k] < MaxAttempts
           /\ \A k \in Memory \ {m} : k \in due => k \in due'
           /\ \A s \in Server, k \in Memory \ {m} : k \in left[s] => k \in left'[s]
           /\ \A s \in Server : server[s].space # None /\ Stale(m, server[s].space)'
                               => Covered(s, m)'
<1>1. /\ attempts' = [attempts EXCEPT ![m] = @ + 1]
      /\ \/ /\ attempts[m] + 1 >= MaxAttempts
            /\ due' = due /\ left' = LeftBy(m, row[m])
         \/ /\ attempts[m] + 1 < MaxAttempts
            /\ due' = due \cup {m} /\ left' = left
  BY Constants DEF Charge, IndexInv, Typed
<1>2. /\ attempts[m] \in Nat /\ attempts[m] + 1 \in 0 .. MaxAttempts
      /\ attempts' \in [Memory -> 0 .. MaxAttempts]
  BY <1>1, Constants DEF IndexInv, Typed
<1>3. due' \subseteq Rows'
  BY <1>1 DEF IndexInv, Typed, Rows
<1>4. ASSUME NEW k \in due' \cup Held' PROVE attempts'[k] < MaxAttempts
  <2>1. k \in Memory
    BY <1>4, <1>3, HeldIsMemory DEF Rows
  <2>2. CASE k = m
    BY <1>1, <1>2, <1>4, <2>2 DEF IndexInv, Typed
  <2>3. CASE k # m
    <3>1. k \in due \cup Held
      BY <1>1, <1>4, <2>3
    <3> QED
      BY <1>1, <2>1, <2>3, <3>1 DEF IndexInv, QueueOK, Typed
  <2> QED
    BY <2>2, <2>3
<1>5. CASE attempts[m] + 1 >= MaxAttempts
  <2>1. left' = LeftBy(m, row[m]) /\ due' = due
    BY <1>1, <1>2, <1>5, Constants
  <2>2. /\ left' \in [Server -> SUBSET Memory]
        /\ \A s \in Server : server[s].space # None /\ StaleRow(row[m], server[s].space)
                            => m \in due \cup left'[s] \/ ~row[m].judged
        /\ \A s \in Server, k \in Memory \ {m} : k \in left[s] => k \in left'[s]
    BY <2>1, LeftByCovers DEF IndexInv, Typed
  <2> QED
    BY <1>2, <1>3, <1>4, <2>1, <2>2 DEF Covered, Stale
<1>6. CASE attempts[m] + 1 < MaxAttempts
  <2>1. left' = left /\ due' = due \cup {m}
    BY <1>1, <1>2, <1>6, Constants
  <2> QED
    BY <1>2, <1>3, <1>4, <2>1 DEF Covered, IndexInv, Typed
<1> QED
  BY <1>1, <1>5, <1>6

-----------------------------------------------------------------------------
(* What clients do.                                                        *)

LEMMA PushOK ==
    ASSUME IndexInv, NEW m \in Memory, Push(m)
    PROVE  IndexInv'
<1>1. PICK t \in Text, d \in Metadata :
           /\ row' = Upserted(m, t, d)
           /\ seen' = IF row[m] = None \/ row[m].text # t \/ d.hidden THEN seen \ {m} ELSE seen
  BY DEF Push
<1>2. /\ Enqueue({m}) \/ (left' = LeftBy(m, row'[m]) /\ UNCHANGED <<due, attempts>>)
      /\ UNCHANGED <<server, reindex, worker, query, ranked>>
  BY DEF Push, queueVars
<1> DEFINE v == IF row[m] # None /\ row[m].text = t THEN row[m].vec ELSE None
           r == [live |-> TRUE, text |-> t, hidden |-> d.hidden, noise |-> d.noise,
                 judged |-> d.judged, vec |-> v]
<1>3. row' = [row EXCEPT ![m] = r]
  BY <1>1 DEF Upserted
<1>4. v \in Vector \cup {None} /\ (v # None => v.text = t)
  BY DEF IndexInv, Typed, Row, VectorOfText
<1>5. v = row[m].vec \/ row[m] = None \/ row[m].text # t
  OBVIOUS
<1> HIDE DEF v
<1>6. r \in Row /\ r.vec = v /\ r.text = t /\ r.live /\ r.hidden = d.hidden
  BY <1>4, Constants DEF Row
<1> HIDE DEF r
<1>7. /\ row' \in [Memory -> Row \cup {None}] /\ row'[m] = r /\ r # None
      /\ \A k \in Memory \ {m} : RowSame(k)
      /\ Rows \subseteq Rows'
  BY <1>3, <1>6, OneRow
<1>8. /\ due \subseteq due' /\ due' \subseteq Rows' /\ attempts' \in [Memory -> 0 .. MaxAttempts]
      /\ left' \in [Server -> SUBSET Memory] /\ QueueOK'
      /\ \A s \in Server, k \in Memory \ {m} : k \in left[s] => k \in left'[s]
      /\ \A s \in Server : server[s].space # None /\ Stale(m, server[s].space)' => Covered(s, m)'
  <2>1. CASE Enqueue({m})
    <3>1. /\ due' = due \cup {m} /\ attempts' \in [Memory -> 0 .. MaxAttempts]
          /\ left' \in [Server -> SUBSET Memory] /\ QueueOK'
          /\ \A s \in Server, k \in Memory \ {m} : k \in left[s] => k \in left'[s]
      BY <1>2, <2>1, EnqueueOK
    <3> QED
      BY <1>7, <3>1 DEF Covered, IndexInv, Typed, Rows
  <2>2. CASE left' = LeftBy(m, row'[m]) /\ UNCHANGED <<due, attempts>>
    <3>1. /\ left' \in [Server -> SUBSET Memory]
          /\ \A s \in Server : server[s].space # None /\ StaleRow(r, server[s].space)
                              => m \in due \cup left'[s] \/ ~r.judged
          /\ \A s \in Server, k \in Memory \ {m} : k \in left[s] => k \in left'[s]
      BY <1>7, <2>2, LeftByCovers DEF IndexInv, Typed
    <3>2. QueueOK'
      BY <1>2, <2>2 DEF IndexInv, QueueOK, Held
    <3> QED
      BY <1>2, <1>7, <2>2, <3>1, <3>2 DEF Covered, Stale, IndexInv, Typed
  <2> QED
    BY <1>2, <2>1, <2>2
<1>9. VectorOfText'
  BY <1>4, <1>6, <1>7 DEF IndexInv, VectorOfText, RowSame
<1>10. SearchOK' /\ seen' \in SUBSET Memory
  <2>1. ASSUME NEW k \in seen'
        PROVE  /\ Visible(k)' /\ row'[k].text = row[k].text
               /\ ranked = None => row'[k].vec # None /\ row'[k].vec.space = query
    <3>1. /\ k \in seen /\ k \in Memory /\ Visible(k)
          /\ ranked = None => row[k].vec # None /\ row[k].vec.space = query
      BY <1>1, <2>1 DEF IndexInv, SearchOK, Typed
    <3>2. CASE k = m
      <4>1. row[m] # None /\ row[m].text = t /\ ~d.hidden
        BY <1>1, <2>1, <3>2
      <4>2. v = row[m].vec
        BY <1>5, <4>1
      <4> QED
        BY <1>6, <1>7, <3>1, <3>2, <4>1, <4>2 DEF Visible
    <3>3. CASE k # m
      BY <1>7, <3>1, <3>3 DEF Visible, RowSame
    <3> QED
      BY <3>2, <3>3
  <2>2. seen' \subseteq seen
    BY <1>1
  <2> QED
    BY <1>2, <2>1, <2>2, SearchStays
<1>11. Typed'
  BY <1>2, <1>7, <1>8, <1>10 DEF IndexInv, Typed
<1>12. ASSUME NEW s \in Server PROVE ServerOK(s)'
  <2>1. WorkOK(s)'
    BY <1>2, <1>7 DEF IndexInv, ServerOK, WorkOK, RowSame, NotReindexing, Typed, Task
  <2>2. \A k \in Memory \ {m} : Covered(s, k) => Covered(s, k)'
    BY <1>2, <1>7, <1>8, StaysCovered
  <2>3. PageOK(s)' /\ \A k \in Memory : ComesBy(s, k)'
    BY <1>2, <1>7, <1>8, <2>2, OthersOK
  <2> QED
    BY <2>1, <2>3 DEF ServerOK
<1> QED
  BY <1>8, <1>9, <1>10, <1>11, <1>12 DEF IndexInv

LEMMA DeleteOK ==
    ASSUME IndexInv, NEW m \in Memory, Delete(m)
    PROVE  IndexInv'
<1> DEFINE r == [row[m] EXCEPT !.live = FALSE]
<1>1. /\ row[m] # None /\ row' = [row EXCEPT ![m] = r] /\ seen' = seen \ {m}
      /\ UNCHANGED <<due, attempts, server, reindex, worker, query, ranked, left>>
  BY DEF Delete, queueVars
<1>2. r \in Row /\ r.text = row[m].text /\ r.vec = row[m].vec /\ ~r.live
  <2>1. row[m] \in Row
    BY <1>1 DEF IndexInv, Typed
  <2> QED
    BY <2>1 DEF Row
<1> HIDE DEF r
<1>3. /\ row' \in [Memory -> Row \cup {None}] /\ row'[m] = r /\ r # None
      /\ \A k \in Memory \ {m} : RowSame(k)
      /\ Rows \subseteq Rows'
  BY <1>1, <1>2, OneRow
<1>4. VectorOfText'
  BY <1>1, <1>2, <1>3 DEF IndexInv, VectorOfText, RowSame
<1>5. SearchOK' /\ seen' \in SUBSET Memory
  <2>1. \A k \in seen' :
           /\ Visible(k)' /\ row'[k].text = row[k].text
           /\ ranked = None => row'[k].vec # None /\ row'[k].vec.space = query
    BY <1>1, <1>3 DEF IndexInv, SearchOK, Typed, RowSame, Visible
  <2> QED
    BY <1>1, <2>1, SearchStays
<1>6. Typed' /\ QueueOK'
  BY <1>1, <1>3, <1>5 DEF IndexInv, Typed, QueueOK, Held
<1>7. ASSUME NEW s \in Server PROVE ServerOK(s)'
  <2>1. WorkOK(s)'
    BY <1>1, <1>2, <1>3 DEF IndexInv, ServerOK, WorkOK, RowSame, NotReindexing, Typed, Task
  <2>2. \A k \in Memory \ {m} : Covered(s, k) => Covered(s, k)'
    BY <1>1, <1>3, StaysCovered
  <2>3. ~Stale(m, server[s].space)'
    BY <1>2, <1>3 DEF Stale, StaleRow
  <2>4. PageOK(s)' /\ \A k \in Memory : ComesBy(s, k)'
    BY <1>1, <1>3, <2>2, <2>3, OthersOK
  <2> QED
    BY <2>1, <2>4 DEF ServerOK
<1> QED
  BY <1>4, <1>5, <1>6, <1>7 DEF IndexInv

\* A search that is found ready has a vector of its space for all it may compare;
\* each vector that it compares is of the text beside it.
LEMMA SearchStepOK ==
    ASSUME IndexInv, Rank \/ Fetch \/ Abandon \/ \E s \in Server : Check(s)
    PROVE  IndexInv'
<1>1. UNCHANGED <<row, due, attempts, server, reindex, worker, left>>
  BY DEF Rank, Fetch, Abandon, EndSearch, Check, queueVars
<1>2. ASSUME NEW s \in Server PROVE ServerOK(s)'
  <2>1. WorkOK(s)'
    BY <1>1 DEF IndexInv, ServerOK, WorkOK, NotReindexing
  <2>2. \A k \in Memory : Covered(s, k) => Covered(s, k)'
    BY <1>1, StaysCovered DEF RowSame
  <2>3. PageOK(s)' /\ \A k \in Memory : ComesBy(s, k)'
    BY <1>1, <2>2, OthersOK DEF RowSame
  <2> QED
    BY <2>1, <2>3 DEF ServerOK
<1>3. VectorOfText' /\ QueueOK'
  BY <1>1 DEF IndexInv, VectorOfText, QueueOK, Held
<1>4. SearchOK' /\ query' \in Space \cup {None} /\ seen' \in SUBSET Memory
  <2>1. CASE EndSearch
    BY <2>1 DEF EndSearch, SearchOK
  <2>2. ASSUME NEW s \in Server, Check(s)
        PROVE  SearchOK' /\ query' \in Space \cup {None} /\ seen' \in SUBSET Memory
    <3>1. /\ query' = server[s].space /\ server[s].space # None
          /\ seen' = {m \in Memory : Visible(m) /\ (row[m].vec # None \/ ~row[m].noise)}
          /\ \A m \in Memory : ~(Visible(m) /\ Stale(m, server[s].space))
          /\ ranked' = None
      BY <2>2 DEF Check, ProjectHasStale, IndexInv, SearchOK
    <3>2. ASSUME NEW m \in seen'
          PROVE  Visible(m) /\ row[m].vec # None /\ row[m].vec.space = server[s].space
      BY <3>1, <3>2 DEF Visible, Stale, StaleRow
    <3> QED
      BY <1>1, <3>1, <3>2 DEF SearchOK, Visible, IndexInv, Typed
  <2>3. CASE Rank
    <3> DEFINE T == {k \in Memory : /\ Visible(k)
                                    /\ row[k].vec # None /\ row[k].vec.space = query}
               hit(m) == [id |-> m, vec |-> row[m].vec]
    <3>1. /\ query' = query /\ query # None
          /\ ranked' = {hit(m) : m \in T}
          /\ seen' = {h.id : h \in ranked'}
      BY <2>3 DEF Rank, Compared
    <3>2. ASSUME NEW m \in T
          PROVE  /\ m \in Memory /\ Visible(m) /\ row[m].vec # None /\ row[m].vec.space = query
                 /\ hit(m) \in Hit /\ hit(m).vec.space = query /\ hit(m).id = m
                 /\ hit(m).vec.text = row[m].text
      BY <3>2 DEF Hit, IndexInv, Typed, Row, Visible, VectorOfText
    <3> HIDE DEF T, hit
    <3>3. \A h \in ranked' : \E m \in T : h = hit(m)
      BY <3>1
    <3>4. ranked' \subseteq Hit /\ \A h \in ranked' : h.vec.space = query
      BY <3>2, <3>3
    <3>5. \A m \in seen' : m \in T /\ \A h \in ranked' : h.id = m => row[m].text = h.vec.text
      BY <3>1, <3>2, <3>3
    <3> QED
      BY <1>1, <3>1, <3>2, <3>4, <3>5 DEF SearchOK, Visible, IndexInv, Typed
  <2> QED
    BY <2>1, <2>2, <2>3 DEF Fetch, Abandon
<1>5. Typed'
  BY <1>1, <1>4 DEF IndexInv, Typed, Rows
<1> QED
  BY <1>2, <1>3, <1>4, <1>5 DEF IndexInv

-----------------------------------------------------------------------------
(* Workers.                                                                *)

\* A worker that takes a memory is at the text that it has.
LEMMA TakeOK ==
    ASSUME IndexInv, NEW p \in Server, NEW m \in Memory, Take(p, m)
    PROVE  IndexInv'
<1> DEFINE w == [id |-> m, text |-> row[m].text, leased |-> TRUE, judged |-> FALSE]
<1>1. /\ server[p].up /\ worker[p] = None /\ m \in due /\ m \notin Held /\ due' = due \ {m}
      /\ worker' = [worker EXCEPT ![p] = w]
      /\ UNCHANGED <<row, attempts, server, reindex, query, ranked, seen, left>>
  BY DEF Take, searchVars
<1>2. row[m] # None /\ row[m] \in Row
  BY <1>1 DEF IndexInv, Typed, Rows
<1>3. w \in Task /\ w.id = m /\ w.text = row[m].text /\ w.leased
  BY <1>2 DEF Row, Task
<1>4. w # None
  BY <1>3, Constants
<1> HIDE DEF w
<1>5. /\ worker' \in [Server -> Task \cup {None}] /\ worker'[p] = w
      /\ \A s \in Server \ {p} : worker'[s] = worker[s]
  BY <1>1, <1>3 DEF IndexInv, Typed
<1>6. SearchOK' /\ VectorOfText'
  BY <1>1, SearchRowsStay DEF IndexInv, VectorOfText
<1>7. Typed'
  BY <1>1, <1>5 DEF IndexInv, Typed, Rows
<1>8. QueueOK'
  <2>1. Held' \subseteq Held \cup {m}
    BY <1>3, <1>5 DEF Held
  <2>2. \A k \in due' \cup Held' : attempts'[k] < MaxAttempts
    BY <1>1, <2>1 DEF IndexInv, QueueOK
  <2>3. \A s \in Server : ~(worker[s] # None /\ worker[s].leased /\ worker[s].id = m)
    BY <1>1 DEF Held
  <2>4. ASSUME NEW s \in Server, NEW q \in Server,
               worker'[s] # None, worker'[s].leased, worker'[q] # None, worker'[q].leased,
               worker'[s].id = worker'[q].id
        PROVE  s = q
    <3>1. CASE s # p /\ q # p
      BY <1>5, <2>4, <3>1 DEF IndexInv, QueueOK
    <3>2. CASE s = p \/ q = p
      BY <1>3, <1>5, <2>3, <2>4, <3>2
    <3> QED
      BY <3>1, <3>2
  <2> QED
    BY <2>2, <2>4 DEF QueueOK
<1>9. m \in UnderWay'
  BY <1>1, <1>3, <1>4, <1>5 DEF UnderWay
<1>10. ASSUME NEW s \in Server PROVE ServerOK(s)'
  <2>1. WorkOK(s)'
    BY <1>1, <1>2, <1>3, <1>5 DEF IndexInv, ServerOK, WorkOK, NotReindexing
  <2>2. ASSUME NEW k \in Memory PROVE Covered(s, k) => Covered(s, k)'
    <3>1. CASE k = m
      BY <1>9, <3>1 DEF Covered
    <3>2. CASE k # m
      BY <1>1, <1>5, <3>2, StaysCovered DEF RowSame
    <3> QED
      BY <3>1, <3>2
  <2>3. PageOK(s)' /\ \A k \in Memory : ComesBy(s, k)'
    BY <1>1, <2>2, OthersOK DEF RowSame
  <2> QED
    BY <2>1, <2>3 DEF ServerOK
<1> QED
  BY <1>6, <1>7, <1>8, <1>10 DEF IndexInv

\* A worker at work has a memory that is there.
LEMMA WorkerAt ==
    ASSUME IndexInv, NEW p \in Server, worker[p] # None
    PROVE  \E i \in Task :
             /\ i = worker[p] /\ i.id \in Memory /\ i.text \in Text
             /\ row[i.id] # None /\ row[i.id] \in Row
             /\ i.leased => i.id \in Held
<1>1. worker[p] \in Task
  BY DEF IndexInv, Typed
<1>2. row[worker[p].id] # None
  BY DEF IndexInv, ServerOK, WorkOK
<1>3. worker[p].id \in Memory /\ worker[p].text \in Text
  BY <1>1 DEF Task
<1>4. row[worker[p].id] \in Row
  BY <1>2, <1>3 DEF IndexInv, Typed
<1>5. worker[p].leased => worker[p].id \in Held
  BY DEF Held
<1> QED
  BY <1>1, <1>2, <1>3, <1>4, <1>5

\* A verdict leaves the memory to the servers unless its worker goes on with it.
LEMMA JudgeOK ==
    ASSUME IndexInv, NEW p \in Server, Judge(p)
    PROVE  IndexInv'
<1>1. PICK i \in Task :
           /\ i = worker[p] /\ i.id \in Memory /\ i.text \in Text
           /\ row[i.id] # None /\ row[i.id] \in Row
           /\ i.leased => i.id \in Held
  BY WorkerAt DEF Judge
<1>2. /\ i # None
      /\ UNCHANGED <<due, attempts, server, reindex, query, ranked, seen>>
  BY <1>1 DEF Judge, queueVars, searchVars
<1>3. CASE row[i.id].text # i.text
  <2>1. worker' = [worker EXCEPT ![p] = None] /\ row' = row /\ left' = left
    BY <1>1, <1>3 DEF Judge
  <2>2. /\ worker' \in [Server -> Task \cup {None}] /\ worker'[p] = None
        /\ \A s \in Server \ {p} : worker'[s] = worker[s]
    BY <2>1 DEF IndexInv, Typed
  <2>3. SearchOK' /\ VectorOfText'
    BY <1>2, <2>1, SearchRowsStay DEF IndexInv, VectorOfText
  <2>4. Typed'
    BY <1>2, <2>1, <2>2 DEF IndexInv, Typed, Rows
  <2>5. QueueOK'
    <3>1. Held' \subseteq Held
      BY <2>2 DEF Held
    <3> QED
      BY <1>2, <2>2, <3>1 DEF IndexInv, QueueOK
  <2>6. ASSUME NEW s \in Server PROVE ServerOK(s)'
    <3>1. WorkOK(s)'
      BY <1>2, <2>1, <2>2 DEF IndexInv, ServerOK, WorkOK, NotReindexing
    <3>2. ASSUME NEW k \in Memory PROVE Covered(s, k) => Covered(s, k)'
      <4>1. \A q \in Server : worker[q].id = k /\ worker[q].text = row[k].text
                              => worker'[q] = worker[q]
        BY <1>1, <1>3, <2>2
      <4> QED
        BY <1>2, <2>1, <4>1, StaysCovered DEF RowSame
    <3>3. PageOK(s)' /\ \A k \in Memory : ComesBy(s, k)'
      BY <1>2, <2>1, <3>2, OthersOK DEF RowSame
    <3> QED
      BY <3>1, <3>3 DEF ServerOK
  <2> QED
    BY <2>3, <2>4, <2>5, <2>6 DEF IndexInv
<1>4. ASSUME NEW n \in BOOLEAN, NEW goes \in BOOLEAN, row[i.id].text = i.text,
             row' = [row EXCEPT ![i.id].noise = n, ![i.id].judged = TRUE],
             worker' = [worker EXCEPT ![p] = IF goes THEN [i EXCEPT !.judged = TRUE] ELSE None],
             left' = IF goes /\ i.leased THEN left ELSE LeftBy(i.id, row'[i.id])
      PROVE  IndexInv'
  <2> DEFINE r == [row[i.id] EXCEPT !.noise = n, !.judged = TRUE]
             w == [i EXCEPT !.judged = TRUE]
  <2>1. /\ r \in Row /\ r.text = row[i.id].text /\ r.vec = row[i.id].vec
        /\ r.live = row[i.id].live /\ r.hidden = row[i.id].hidden
    BY <1>1 DEF Row
  <2>2. row' = [row EXCEPT ![i.id] = r]
    BY <1>4
  <2> HIDE DEF r
  <2>3. /\ row' \in [Memory -> Row \cup {None}] /\ row'[i.id] = r /\ r # None
        /\ \A k \in Memory \ {i.id} : RowSame(k)
        /\ Rows \subseteq Rows'
    BY <1>1, <2>1, <2>2, OneRow
  <2>4. w \in Task /\ w.id = i.id /\ w.text = i.text /\ (w.leased <=> i.leased)
    BY DEF Task
  <2>5. w # None
    BY <2>4, Constants
  <2>6. worker' = [worker EXCEPT ![p] = IF goes THEN w ELSE None]
    BY <1>4
  <2> HIDE DEF w
  <2>7. /\ worker' \in [Server -> Task \cup {None}]
        /\ worker'[p] = IF goes THEN w ELSE None
        /\ \A s \in Server \ {p} : worker'[s] = worker[s]
    BY <2>4, <2>6 DEF IndexInv, Typed
  <2>8. /\ left' \in [Server -> SUBSET Memory]
        /\ \A s \in Server, k \in Memory \ {i.id} : k \in left[s] => k \in left'[s]
        /\ \A s \in Server : server[s].space # None /\ Stale(i.id, server[s].space)'
                            => Covered(s, i.id)'
    <3>1. CASE goes /\ i.leased
      <4>1. left' = left /\ worker'[p] = w
        BY <1>4, <2>7, <3>1
      <4>2. /\ worker'[p] # None /\ worker'[p].leased /\ worker'[p].id = i.id
            /\ row'[worker'[p].id].text = worker'[p].text
        <5>1. row'[i.id].text = i.text
          BY <1>4, <2>1, <2>3
        <5> QED
          BY <2>4, <2>5, <3>1, <4>1, <5>1
      <4>3. i.id \in UnderWay'
        BY <4>2 DEF UnderWay
      <4> QED
        BY <4>1, <4>3 DEF Covered, IndexInv, Typed
    <3>2. CASE ~(goes /\ i.leased)
      <4>1. left' = LeftBy(i.id, r)
        BY <1>4, <2>3, <3>2
      <4>2. /\ left' \in [Server -> SUBSET Memory]
            /\ \A s \in Server : server[s].space # None /\ StaleRow(r, server[s].space)
                                => i.id \in due \cup left'[s] \/ ~r.judged
            /\ \A s \in Server, k \in Memory \ {i.id} : k \in left[s] => k \in left'[s]
        BY <1>1, <4>1, LeftByCovers DEF IndexInv, Typed
      <4> QED
        BY <1>2, <2>3, <4>2 DEF Covered, Stale
    <3> QED
      BY <3>1, <3>2
  <2>9. VectorOfText'
    BY <1>1, <2>1, <2>3 DEF IndexInv, VectorOfText, RowSame
  <2>10. SearchOK' /\ seen' \in SUBSET Memory
    <3>1. \A k \in seen : Visible(k) /\ k \in Memory
                          /\ (ranked = None => row[k].vec # None /\ row[k].vec.space = query)
      BY DEF IndexInv, Typed, SearchOK
    <3>2. \A k \in seen' : /\ Visible(k)' /\ row'[k].text = row[k].text
                           /\ ranked = None => row'[k].vec # None /\ row'[k].vec.space = query
      BY <1>2, <2>1, <2>3, <3>1 DEF Visible, RowSame
    <3> QED
      BY <1>2, <3>2, SearchStays
  <2>11. Typed'
    <3>1. due' \subseteq Rows'
      BY <1>2, <2>3 DEF IndexInv, Typed
    <3> QED
      BY <1>2, <2>3, <2>7, <2>8, <2>10, <3>1 DEF IndexInv, Typed
  <2>12. \A s \in Server :
            worker'[s] # None => /\ worker[s] # None /\ worker'[s].id = worker[s].id
                                 /\ worker'[s].leased <=> worker[s].leased
    BY <1>1, <1>2, <2>4, <2>7
  <2>13. QueueOK'
    <3>1. Held' \subseteq Held
      BY <2>12 DEF Held
    <3> QED
      BY <1>2, <2>12, <3>1 DEF IndexInv, QueueOK
  <2>14. ASSUME NEW s \in Server PROVE ServerOK(s)'
    <3>1. WorkOK(s)'
      <4>1. worker'[s] # None => row'[worker'[s].id] # None
        BY <2>3, <2>12 DEF IndexInv, ServerOK, WorkOK, RowSame, Typed, Task
      <4>2. ~server'[s].up => reindex'[s] = NotReindexing /\ worker'[s] = None
        BY <1>2, <2>12 DEF IndexInv, ServerOK, WorkOK
      <4> QED
        BY <4>1, <4>2 DEF WorkOK, NotReindexing
    <3>2. ASSUME NEW k \in Memory \ {i.id} PROVE Covered(s, k) => Covered(s, k)'
      <4>1. \A q \in Server : worker[q].id = k => worker'[q] = worker[q]
        BY <1>1, <2>7
      <4> QED
        BY <1>2, <2>3, <2>8, <4>1, StaysCovered
    <3>3. PageOK(s)' /\ \A k \in Memory : ComesBy(s, k)'
      BY <1>2, <2>3, <2>8, <3>2, OthersOK
    <3> QED
      BY <3>1, <3>3 DEF ServerOK
  <2> QED
    BY <2>9, <2>10, <2>11, <2>13, <2>14 DEF IndexInv
<1>5. CASE row[i.id].text = i.text
  <2>1. PICK n \in BOOLEAN :
           LET goes == ~n /\ server[p].space # None IN
           /\ row' = [row EXCEPT ![i.id].noise = n, ![i.id].judged = TRUE]
           /\ worker' = [worker EXCEPT ![p] = IF goes THEN [i EXCEPT !.judged = TRUE] ELSE None]
           /\ left' = IF goes /\ i.leased THEN left ELSE LeftBy(i.id, row'[i.id])
    BY <1>1, <1>5 DEF Judge
  <2>2. (~n /\ server[p].space # None) \in BOOLEAN
    OBVIOUS
  <2> QED
    BY <1>4, <1>5, <2>1, <2>2
<1> QED
  BY <1>3, <1>5

\* A failure is charged of a memory that no worker has a lease of then.
LEMMA FailOK ==
    ASSUME IndexInv, NEW p \in Server, Fail(p)
    PROVE  IndexInv'
<1>1. PICK i \in Task :
           /\ i = worker[p] /\ i.id \in Memory /\ i.text \in Text
           /\ row[i.id] # None /\ row[i.id] \in Row
           /\ i.leased => i.id \in Held
  BY WorkerAt DEF Fail
<1>2. /\ i # None /\ worker' = [worker EXCEPT ![p] = None]
      /\ UNCHANGED <<row, server, reindex, query, ranked, seen>>
      /\ \/ i.leased /\ i.id \notin due /\ Charge(i.id)
         \/ (i.id \in due \/ ~i.leased) /\ UNCHANGED <<due, attempts, left>>
  BY <1>1 DEF Fail, queueVars, searchVars
<1>3. /\ worker' \in [Server -> Task \cup {None}] /\ worker'[p] = None
      /\ \A s \in Server \ {p} : worker'[s] = worker[s]
  BY <1>2 DEF IndexInv, Typed
<1>4. Held' \subseteq Held
  BY <1>3 DEF Held
<1>5. SearchOK' /\ VectorOfText'
  BY <1>2, SearchRowsStay DEF IndexInv, VectorOfText
<1>6. /\ due' \subseteq Rows' /\ attempts' \in [Memory -> 0 .. MaxAttempts]
      /\ left' \in [Server -> SUBSET Memory]
      /\ \A k \in due' \cup Held' : attempts'[k] < MaxAttempts
      /\ \A k \in Memory \ {i.id} : k \in due => k \in due'
      /\ \A s \in Server, k \in Memory \ {i.id} : k \in left[s] => k \in left'[s]
      /\ \A s \in Server : \/ server[s].space # None /\ Stale(i.id, server[s].space)'
                              => Covered(s, i.id)'
                           \/ Covered(s, i.id) => Covered(s, i.id)'
  <2>1. CASE i.leased /\ i.id \notin due /\ Charge(i.id)
    <3>1. \A s \in Server : worker[s] # None /\ worker[s].leased /\ worker[s].id = i.id => s = p
      BY <1>1, <1>2, <2>1 DEF IndexInv, QueueOK
    <3>2. i.id \notin Held'
      BY <1>3, <3>1 DEF Held
    <3>3. attempts[i.id] < MaxAttempts /\ row' = row /\ server' = server
      BY <1>1, <1>2, <2>1 DEF IndexInv, QueueOK
    <3>4. i.id \in Memory \ due
      BY <1>1, <2>1
    <3> QED
      BY <1>1, <1>4, <2>1, <3>2, <3>3, <3>4, ChargeOK
  <2>2. CASE (i.id \in due \/ ~i.leased) /\ UNCHANGED <<due, attempts, left>>
    <3>1. /\ due' \subseteq Rows' /\ attempts' \in [Memory -> 0 .. MaxAttempts]
          /\ left' \in [Server -> SUBSET Memory]
          /\ \A k \in due' \cup Held' : attempts'[k] < MaxAttempts
      BY <1>2, <1>4, <2>2 DEF IndexInv, Typed, QueueOK, Rows
    <3>2. ASSUME NEW s \in Server PROVE Covered(s, i.id) => Covered(s, i.id)'
      <4>1. CASE i.id \in due
        BY <2>2, <4>1 DEF Covered
      <4>2. CASE ~i.leased
        <5>1. ~worker[p].leased
          BY <1>1, <4>2
        <5>2. \A q \in Server : worker[q].leased => worker'[q] = worker[q]
          BY <1>3, <5>1
        <5> QED
          BY <1>1, <1>2, <2>2, <5>2, StaysCovered DEF RowSame
      <4> QED
        BY <2>2, <4>1, <4>2
    <3> QED
      BY <2>2, <3>1, <3>2
  <2> QED
    BY <1>2, <2>1, <2>2
<1>7. Typed'
  BY <1>2, <1>3, <1>6 DEF IndexInv, Typed
<1>8. QueueOK'
  BY <1>3, <1>6 DEF IndexInv, QueueOK
<1>9. ASSUME NEW s \in Server PROVE ServerOK(s)'
  <2>1. WorkOK(s)'
    BY <1>2, <1>3 DEF IndexInv, ServerOK, WorkOK, NotReindexing
  <2>2. ASSUME NEW k \in Memory \ {i.id} PROVE Covered(s, k) => Covered(s, k)'
    <3>1. \A q \in Server : worker[q].id = k => worker'[q] = worker[q]
      BY <1>1, <1>3
    <3> QED
      BY <1>2, <1>6, <3>1, StaysCovered DEF RowSame
  <2>3. PageOK(s)' /\ \A k \in Memory : ComesBy(s, k)'
    BY <1>1, <1>2, <1>6, <2>2, OthersOK DEF RowSame
  <2> QED
    BY <2>1, <2>3 DEF ServerOK
<1> QED
  BY <1>5, <1>7, <1>8, <1>9 DEF IndexInv

\* A vector is stored only beside the text that it was made of.
LEMMA EmbeddedOK ==
    ASSUME IndexInv, NEW i, i.id \in Memory, i.text \in Text, NEW space \in Space \cup {None},
           row[i.id] # None, StoreEmbedding(i, space), UNCHANGED <<server, query, ranked>>
    PROVE  /\ row' \in [Memory -> Row \cup {None}] /\ Rows \subseteq Rows'
           /\ left' \in [Server -> SUBSET Memory] /\ seen' \in SUBSET Memory
           /\ VectorOfText' /\ SearchOK'
           /\ \A k \in Memory : row[k] # None => row'[k] # None /\ row'[k].text = row[k].text
           /\ \A k \in Memory \ {i.id} : /\ RowSame(k)
                                      /\ \A s \in Server : k \in left[s] => k \in left'[s]
           /\ row[i.id].text = i.text =>
                \A s \in Server : server[s].space # None /\ Stale(i.id, server[s].space)'
                                  => i.id \in due \cup left'[s] \/ ~row'[i.id].judged
           /\ row[i.id].text # i.text => row' = row /\ left' = left
<1>1. CASE row[i.id].text # i.text
  <2>1. row' = row /\ UNCHANGED <<left, seen>>
    BY <1>1 DEF Embedded, StoreEmbedding
  <2>2. VectorOfText' /\ SearchOK'
    BY <2>1, SearchRowsStay DEF IndexInv, VectorOfText
  <2> QED
    BY <1>1, <2>1, <2>2 DEF IndexInv, Typed, RowSame, Rows
<1>2. CASE row[i.id].text = i.text
  <2> DEFINE v == [text |-> i.text, space |-> space]
             r == [row[i.id] EXCEPT !.vec = v]
  <2>1. v \in Vector /\ v.text = i.text /\ v.space = space
    BY DEF Vector
  <2>2. row' = [row EXCEPT ![i.id] = r]
    BY <1>2 DEF Embedded, StoreEmbedding
  <2> HIDE DEF v
  <2>3. row[i.id] \in Row
    BY DEF IndexInv, Typed
  <2>4. /\ r \in Row /\ r.text = i.text /\ r.vec = v
        /\ r.live = row[i.id].live /\ r.hidden = row[i.id].hidden
    BY <1>2, <2>1, <2>3 DEF Row
  <2> HIDE DEF r
  <2>5. /\ row' \in [Memory -> Row \cup {None}] /\ row'[i.id] = r /\ r # None
        /\ \A k \in Memory \ {i.id} : RowSame(k)
        /\ Rows \subseteq Rows'
    BY <2>2, <2>4, OneRow
  <2>6. left' = LeftBy(i.id, r) /\ seen' = SeenBut(i.id, space)
    BY <1>2, <2>5 DEF StoreEmbedding
  <2>7. /\ left' \in [Server -> SUBSET Memory]
        /\ \A s \in Server : server[s].space # None /\ StaleRow(r, server[s].space)
                            => i.id \in due \cup left'[s] \/ ~r.judged
        /\ \A s \in Server, k \in Memory \ {i.id} : k \in left[s] => k \in left'[s]
    BY <2>6, LeftByCovers DEF IndexInv, Typed
  <2>8. VectorOfText'
    BY <2>1, <2>4, <2>5 DEF IndexInv, VectorOfText, RowSame
  <2>9. SearchOK' /\ seen' \in SUBSET Memory
    <3>1. v # None
      BY <2>1, Constants
    <3>2. seen' \subseteq seen /\ (i.id \in seen' => space = query \/ ranked # None)
      BY <2>6 DEF SeenBut
    <3>3. ASSUME NEW k \in seen'
          PROVE  /\ Visible(k)' /\ row'[k].text = row[k].text
                 /\ ranked = None => row'[k].vec # None /\ row'[k].vec.space = query
      <4>1. /\ k \in Memory /\ Visible(k)
            /\ ranked = None => row[k].vec # None /\ row[k].vec.space = query
        BY <3>2, <3>3 DEF IndexInv, SearchOK, Typed
      <4>2. CASE k = i.id
        BY <1>2, <2>1, <2>4, <2>5, <3>1, <3>2, <3>3, <4>1, <4>2 DEF Visible
      <4>3. CASE k # i.id
        BY <2>5, <4>1, <4>3 DEF Visible, RowSame
      <4> QED
        BY <4>2, <4>3
    <3> QED
      BY <3>2, <3>3, SearchStays
  <2>10. \A k \in Memory : row[k] # None => row'[k] # None /\ row'[k].text = row[k].text
    BY <1>2, <2>4, <2>5 DEF RowSame
  <2>11. \A s \in Server : server[s].space # None /\ Stale(i.id, server[s].space)'
                           => i.id \in due \cup left'[s] \/ ~row'[i.id].judged
    BY <2>5, <2>7 DEF Stale
  <2> QED
    BY <1>2, <2>5, <2>7, <2>8, <2>9, <2>10, <2>11
<1> QED
  BY <1>1, <1>2

LEMMA EmbedOK ==
    ASSUME IndexInv, NEW p \in Server, Embed(p)
    PROVE  IndexInv'
<1>1. PICK i \in Task :
           /\ i = worker[p] /\ i.id \in Memory /\ i.text \in Text
           /\ row[i.id] # None /\ row[i.id] \in Row
           /\ i.leased => i.id \in Held
  BY WorkerAt DEF Embed
<1>2. /\ worker' = [worker EXCEPT ![p] = None]
      /\ StoreEmbedding(i, server[p].space)
      /\ UNCHANGED <<due, attempts, server, reindex, query, ranked>>
  BY <1>1 DEF Embed, queueVars
<1>3. /\ worker' \in [Server -> Task \cup {None}] /\ worker'[p] = None
      /\ \A s \in Server \ {p} : worker'[s] = worker[s]
      /\ Held' \subseteq Held
  BY <1>2 DEF IndexInv, Typed, Held
<1>4. /\ row' \in [Memory -> Row \cup {None}] /\ Rows \subseteq Rows'
      /\ left' \in [Server -> SUBSET Memory] /\ seen' \in SUBSET Memory
      /\ VectorOfText' /\ SearchOK'
      /\ \A k \in Memory : row[k] # None => row'[k] # None /\ row'[k].text = row[k].text
      /\ \A k \in Memory \ {i.id} : /\ RowSame(k)
                                 /\ \A s \in Server : k \in left[s] => k \in left'[s]
      /\ row[i.id].text = i.text =>
           \A s \in Server : server[s].space # None /\ Stale(i.id, server[s].space)'
                             => i.id \in due \cup left'[s] \/ ~row'[i.id].judged
      /\ row[i.id].text # i.text => row' = row /\ left' = left
  <2>1. server[p].space \in Space \cup {None}
    BY DEF IndexInv, Typed
  <2>2. UNCHANGED <<server, query, ranked>>
    BY <1>2
  <2> QED
    BY <1>1, <1>2, <2>1, <2>2, EmbeddedOK
<1>5. Typed'
  BY <1>2, <1>3, <1>4 DEF IndexInv, Typed
<1>6. QueueOK'
  BY <1>2, <1>3 DEF IndexInv, QueueOK
<1>7. ASSUME NEW s \in Server PROVE ServerOK(s)'
  <2>1. WorkOK(s)'
    BY <1>2, <1>3, <1>4 DEF IndexInv, ServerOK, WorkOK, Typed, Task, NotReindexing
  <2>2. ASSUME NEW k \in Memory \ {i.id} PROVE Covered(s, k) => Covered(s, k)'
    <3>1. \A q \in Server : worker[q].id = k => worker'[q] = worker[q]
      BY <1>1, <1>3
    <3> QED
      BY <1>2, <1>4, <3>1, StaysCovered
  <2>3. \/ RowSame(i.id) /\ (Covered(s, i.id) => Covered(s, i.id)')
        \/ server[s].space # None /\ Stale(i.id, server[s].space)' => Covered(s, i.id)'
    <3>1. CASE row[i.id].text # i.text
      <4>1. \A q \in Server : worker[q].id = i.id /\ worker[q].text = row[i.id].text
                              => worker'[q] = worker[q]
        BY <1>1, <1>3, <3>1
      <4>2. RowSame(i.id) /\ left' = left
        BY <1>4, <3>1 DEF RowSame
      <4> QED
        BY <1>1, <1>2, <4>1, <4>2, StaysCovered
    <3>2. CASE row[i.id].text = i.text
      BY <1>2, <1>4, <3>2 DEF Covered
    <3> QED
      BY <3>1, <3>2
  <2>4. PageOK(s)' /\ \A k \in Memory : ComesBy(s, k)'
    BY <1>1, <1>2, <1>4, <2>2, <2>3, OthersOK
  <2> QED
    BY <2>1, <2>4 DEF ServerOK
<1> QED
  BY <1>4, <1>5, <1>6, <1>7 DEF IndexInv

LEMMA LoseLeaseOK ==
    ASSUME IndexInv, NEW p \in Server, LoseLease(p)
    PROVE  IndexInv'
<1>1. /\ worker[p] # None /\ worker[p].leased /\ due' = due \cup {worker[p].id}
      /\ worker' = [worker EXCEPT ![p].leased = FALSE]
      /\ UNCHANGED <<row, attempts, server, reindex, query, ranked, seen, left>>
  BY DEF LoseLease, searchVars
<1> DEFINE w == [worker[p] EXCEPT !.leased = FALSE]
<1>2. worker[p] \in Task
  BY <1>1 DEF IndexInv, Typed
<1>3. w \in Task /\ w.id = worker[p].id /\ ~w.leased
  BY <1>2 DEF Task
<1>4. worker' = [worker EXCEPT ![p] = w]
  BY <1>1
<1> HIDE DEF w
<1>5. /\ worker' \in [Server -> Task \cup {None}] /\ worker'[p] = w /\ w # None
      /\ \A s \in Server \ {p} : worker'[s] = worker[s]
  BY <1>3, <1>4, Constants DEF IndexInv, Typed
<1>6. worker[p].id \in Held /\ Held' \subseteq Held
  BY <1>1, <1>3, <1>5 DEF Held
<1>7. SearchOK' /\ VectorOfText'
  BY <1>1, SearchRowsStay DEF IndexInv, VectorOfText
<1>8. due' \subseteq Rows'
  BY <1>1, <1>2 DEF IndexInv, Typed, ServerOK, WorkOK, Rows, Task
<1>9. Typed'
  BY <1>1, <1>5, <1>8 DEF IndexInv, Typed
<1>10. QueueOK'
  <2>1. \A m \in due' \cup Held' : attempts'[m] < MaxAttempts
    BY <1>1, <1>6 DEF IndexInv, QueueOK
  <2> QED
    BY <1>3, <1>5, <2>1 DEF IndexInv, QueueOK
<1>11. ASSUME NEW s \in Server PROVE ServerOK(s)'
  <2>1. WorkOK(s)'
    BY <1>1, <1>3, <1>5 DEF IndexInv, ServerOK, WorkOK, NotReindexing
  <2>2. ASSUME NEW k \in Memory PROVE Covered(s, k) => Covered(s, k)'
    <3>1. CASE k = worker[p].id
      BY <1>1, <3>1 DEF Covered
    <3>2. CASE k # worker[p].id
      <4>1. \A q \in Server : worker[q].id = k => worker'[q] = worker[q]
        BY <1>5, <3>2
      <4> QED
        BY <1>1, <4>1, StaysCovered DEF RowSame
    <3> QED
      BY <3>1, <3>2
  <2>3. PageOK(s)' /\ \A k \in Memory : ComesBy(s, k)'
    BY <1>1, <2>2, OthersOK DEF RowSame
  <2> QED
    BY <2>1, <2>3 DEF ServerOK
<1> QED
  BY <1>7, <1>9, <1>10, <1>11 DEF IndexInv

LEMMA SweepOK ==
    ASSUME IndexInv, NEW p \in Server, Sweep(p)
    PROVE  IndexInv'
<1>1. PICK S \in SUBSET {m \in Rows : row[m].live /\ ~row[m].judged} : Enqueue(S)
  BY DEF Sweep
<1>2. UNCHANGED <<row, server, reindex, worker, query, ranked, seen>>
  BY DEF Sweep, searchVars
<1>3. S \in SUBSET Memory /\ S \subseteq Rows
  BY DEF Rows
<1>4. /\ due' = due \cup S /\ attempts' \in [Memory -> 0 .. MaxAttempts]
      /\ left' \in [Server -> SUBSET Memory] /\ QueueOK'
      /\ \A s \in Server, k \in Memory \ S : k \in left[s] => k \in left'[s]
  BY <1>1, <1>2, <1>3, EnqueueOK
<1>5. SearchOK' /\ VectorOfText'
  BY <1>2, SearchRowsStay DEF IndexInv, VectorOfText
<1>6. Typed'
  BY <1>2, <1>3, <1>4 DEF IndexInv, Typed, Rows
<1>7. ASSUME NEW s \in Server PROVE ServerOK(s)'
  <2>1. WorkOK(s)'
    BY <1>2 DEF IndexInv, ServerOK, WorkOK, NotReindexing
  <2>2. ASSUME NEW k \in Memory PROVE Covered(s, k) => Covered(s, k)'
    <3>1. CASE k \in S
      BY <1>4, <3>1 DEF Covered
    <3>2. CASE k \notin S
      BY <1>2, <1>4, <3>2, StaysCovered DEF RowSame
    <3> QED
      BY <3>1, <3>2
  <2>3. PageOK(s)' /\ \A k \in Memory : ComesBy(s, k)'
    BY <1>2, <2>2, OthersOK DEF RowSame
  <2> QED
    BY <2>1, <2>3 DEF ServerOK
<1> QED
  BY <1>4, <1>5, <1>6, <1>7 DEF IndexInv

-----------------------------------------------------------------------------
(* Reindexing.                                                             *)

\* A page takes over the stale memories that it holds, and leaves the others to
\* those after it; one that cannot be read leaves them all.
LEMMA ReindexPageOK ==
    ASSUME IndexInv, NEW p \in Server, ReindexPage(p)
    PROVE  IndexInv'
<1> DEFINE page == Page(server[p].space, reindex[p].cursor)
           rest == {m \in Memory : m > reindex[p].cursor /\ LeftOut(row[m], server[p].space)}
<1>1. /\ reindex[p].on /\ reindex[p].page = {}
      /\ \/ /\ reindex' = [reindex EXCEPT ![p] =
                              IF page = {} THEN NotReindexing ELSE [@ EXCEPT !.page = page]]
            /\ left' = left
         \/ /\ reindex' = [reindex EXCEPT ![p] = NotReindexing]
            /\ left' = [left EXCEPT ![p] = @ \cup rest]
      /\ UNCHANGED <<row, due, attempts, server, worker, query, ranked, seen>>
  BY DEF ReindexPage, queueVars, searchVars
<1>2. /\ reindex[p] \in [on : BOOLEAN, cursor : Memory \cup {0}, page : SUBSET Item]
      /\ reindex[p].cursor \in Nat
  <2>1. reindex[p] \in [on : BOOLEAN, cursor : Memory \cup {0}, page : SUBSET Item]
    BY DEF IndexInv, Typed
  <2>2. reindex[p].cursor \in Memory \cup {0}
    BY <2>1
  <2>3. reindex[p].cursor \in Nat
    BY <2>2, CursorIsNat
  <2> QED
    BY <2>1, <2>3
<1>3. /\ \A i \in page : /\ i.id \in Memory /\ i.id > reindex[p].cursor /\ row[i.id] # None
                         /\ i = [id |-> i.id, text |-> row[i.id].text]
      /\ \A m \in Memory : m > reindex[p].cursor /\ Stale(m, server[p].space) =>
           /\ page # {}
           /\ (\E i \in page : i.id = m) \/ (\A i \in page : i.id < m)
  BY <1>2, PageIsNext DEF Stale, StaleRow
<1> HIDE DEF page
<1>4. page \in SUBSET Item
  <2>1. ASSUME NEW i \in page PROVE i \in Item
    <3>1. i.id \in Memory /\ row[i.id].text \in Text
      BY <1>3 DEF IndexInv, Typed, Row
    <3>2. [id |-> i.id, text |-> row[i.id].text] \in Item
      BY <3>1 DEF Item
    <3> QED
      BY <1>3, <3>2
  <2> QED
    BY <2>1
<1>5. /\ \A s \in Server \ {p} : reindex'[s] = reindex[s]
      /\ reindex' \in [Server -> [on : BOOLEAN, cursor : Memory \cup {0}, page : SUBSET Item]]
      /\ \/ reindex'[p] = NotReindexing /\ (page = {} \/ left'[p] = left[p] \cup rest)
         \/ /\ page # {} /\ reindex'[p].on /\ reindex'[p].page = page
            /\ reindex'[p].cursor = reindex[p].cursor
      /\ left' \in [Server -> SUBSET Memory] /\ \A s \in Server : left[s] \subseteq left'[s]
  <2>1. /\ [reindex[p] EXCEPT !.page = page] \in
              [on : BOOLEAN, cursor : Memory \cup {0}, page : SUBSET Item]
        /\ NotReindexing \in [on : BOOLEAN, cursor : Memory \cup {0}, page : SUBSET Item]
    BY <1>2, <1>4 DEF NotReindexing
  <2>2. /\ reindex \in [Server -> [on : BOOLEAN, cursor : Memory \cup {0}, page : SUBSET Item]]
        /\ left \in [Server -> SUBSET Memory] /\ rest \subseteq Memory
    BY DEF IndexInv, Typed
  <2> HIDE DEF rest
  <2>3. CASE reindex' = [reindex EXCEPT ![p] = NotReindexing] /\ left' = left /\ page = {}
    BY <2>1, <2>2, <2>3
  <2>4. CASE reindex' = [reindex EXCEPT ![p] = NotReindexing] /\ left' = [left EXCEPT ![p] = @ \cup rest]
    BY <2>1, <2>2, <2>4
  <2>5. CASE /\ reindex' = [reindex EXCEPT ![p] = [reindex[p] EXCEPT !.page = page]]
             /\ left' = left /\ page # {}
    BY <1>1, <1>2, <2>1, <2>2, <2>5
  <2> QED
    BY <1>1, <2>3, <2>4, <2>5
<1>6. Typed' /\ VectorOfText' /\ SearchOK' /\ QueueOK'
  BY <1>1, <1>5, SearchRowsStay DEF IndexInv, Typed, Rows, VectorOfText, QueueOK, Held
<1>7. \A s \in Server, k \in Memory : Covered(s, k) => Covered(s, k)'
  BY <1>1, <1>5, StaysCovered DEF RowSame
<1>8. \A s \in Server : WorkOK(s)'
  BY <1>1, <1>5 DEF IndexInv, ServerOK, WorkOK, NotReindexing
<1>9. ASSUME NEW s \in Server, s # p PROVE ServerOK(s)'
  <2>1. PageOK(s)' /\ \A k \in Memory : ComesBy(s, k)'
    BY <1>1, <1>5, <1>7, <1>9, OthersOK DEF RowSame
  <2> QED
    BY <1>8, <2>1 DEF ServerOK
<1>10. ServerOK(p)'
  <2>1. PageOK(p)'
    <3>1. CASE reindex'[p] = NotReindexing
      BY <3>1 DEF PageOK, NotReindexing
    <3>2. CASE reindex'[p].page = page /\ reindex'[p].cursor = reindex[p].cursor
      <4>1. ASSUME NEW i \in page
            PROVE  /\ row[i.id] # None /\ i.id > reindex[p].cursor /\ row[i.id].text = i.text
                   /\ \A j \in page : j.id = i.id => j = i
        BY <1>3, <4>1
      <4> QED
        BY <1>1, <3>2, <4>1 DEF PageOK
    <3> QED
      BY <1>5, <3>1, <3>2
  <2>2. ASSUME NEW m \in Memory PROVE ComesBy(p, m)'
    <3> SUFFICES ASSUME server[p].up, server[p].space # None, Stale(m, server[p].space)
                 PROVE  Covered(p, m)' \/ m \in Ahead(p)'
      BY <1>1 DEF ComesBy, Stale
    <3>1. Covered(p, m) \/ m > reindex[p].cursor
      BY DEF IndexInv, ServerOK, ComesBy, Ahead
    <3>2. CASE Covered(p, m)
      BY <1>7, <3>2
    <3>3. CASE m > reindex[p].cursor
      <4>1. page # {} /\ ((\E i \in page : i.id = m) \/ (\A i \in page : i.id < m))
        BY <1>3, <3>3
      <4>2. CASE left'[p] = left[p] \cup rest
        BY <1>1, <3>3, <4>2 DEF Covered, LeftOut, Stale
      <4>3. CASE /\ reindex'[p].on /\ reindex'[p].page = page
                 /\ reindex'[p].cursor = reindex[p].cursor
        <5>1. m \in Ahead(p)'
          BY <3>3, <4>1, <4>3 DEF Ahead
        <5> QED
          BY <5>1
      <4> QED
        BY <1>5, <4>1, <4>2, <4>3
    <3> QED
      BY <3>1, <3>2, <3>3
  <2> QED
    BY <1>8, <2>1, <2>2 DEF ServerOK
<1> QED
  BY <1>6, <1>9, <1>10 DEF IndexInv

\* The least item of a page, if the page has any.
LEMMA ReindexOneStep ==
    ASSUME IndexInv, NEW p \in Server, ReindexOne(p)
    PROVE  \E i \in reindex[p].page :
             /\ \A j \in reindex[p].page : j = i \/ j.id > i.id
             /\ reindex' = [reindex EXCEPT ![p].cursor = i.id, ![p].page = @ \ {i}]
             /\ \/ StoreEmbedding(i, server[p].space)
                \/ /\ left' = IF LeftOut(row[i.id], server[p].space)
                              THEN [left EXCEPT ![p] = @ \cup {i.id}] ELSE left
                   /\ UNCHANGED <<row, seen>>
             /\ UNCHANGED <<due, attempts, server, worker, query, ranked>>
<1> DEFINE page == reindex[p].page
           Leads(i) == \A j \in page : i.id <= j.id
           i == CHOOSE k \in page : Leads(k)
<1>1. page # {} /\ page \subseteq Item
  BY DEF ReindexOne, IndexInv, Typed
<1>2. \A k \in page : k.id \in Nat
  BY <1>1, Constants DEF Item
<1> DEFINE T == {k.id : k \in page}
<1>3. PICK n \in T : \A k \in T : n <= k
  <2>1. T \subseteq Nat /\ T # {}
    BY <1>1, <1>2
  <2> HIDE DEF T
  <2> QED
    BY <2>1, Least
<1>4. \E k \in page : Leads(k)
  BY <1>3
<1>5. i \in page /\ Leads(i)
  BY <1>4
<1>6. \A j \in page : j = i \/ j.id > i.id
  <2>1. \A j \in page : j.id = i.id => j = i
    BY <1>5 DEF IndexInv, ServerOK, PageOK
  <2> QED
    BY <1>2, <1>5, <2>1
<1>7. /\ reindex' = [reindex EXCEPT ![p].cursor = i.id, ![p].page = @ \ {i}]
      /\ \/ StoreEmbedding(i, server[p].space)
         \/ /\ left' = IF LeftOut(row[i.id], server[p].space)
                       THEN [left EXCEPT ![p] = @ \cup {i.id}] ELSE left
            /\ UNCHANGED <<row, seen>>
      /\ UNCHANGED <<due, attempts, server, worker, query, ranked>>
  BY DEF ReindexOne, queueVars
<1> HIDE DEF i
<1> QED
  BY <1>5, <1>6, <1>7

LEMMA ReindexOneOK ==
    ASSUME IndexInv, NEW p \in Server, ReindexOne(p)
    PROVE  IndexInv'
<1>1. PICK i \in reindex[p].page :
           /\ \A j \in reindex[p].page : j = i \/ j.id > i.id
           /\ reindex' = [reindex EXCEPT ![p].cursor = i.id, ![p].page = @ \ {i}]
           /\ \/ StoreEmbedding(i, server[p].space)
              \/ /\ left' = IF LeftOut(row[i.id], server[p].space)
                            THEN [left EXCEPT ![p] = @ \cup {i.id}] ELSE left
                 /\ UNCHANGED <<row, seen>>
           /\ UNCHANGED <<due, attempts, server, worker, query, ranked>>
  BY ReindexOneStep
<1>2. /\ reindex[p] \in [on : BOOLEAN, cursor : Memory \cup {0}, page : SUBSET Item]
      /\ i \in Item /\ i.id \in Memory /\ i.text \in Text
  <2>1. reindex[p] \in [on : BOOLEAN, cursor : Memory \cup {0}, page : SUBSET Item]
    BY DEF IndexInv, Typed
  <2> QED
    BY <2>1 DEF Item
<1>3. /\ row[i.id] # None /\ i.id > reindex[p].cursor
      /\ server[p].space # None /\ Stale(i.id, server[p].space) /\ row[i.id].text # i.text
         => Covered(p, i.id)
  BY DEF IndexInv, ServerOK, PageOK
<1>4. /\ \A s \in Server \ {p} : reindex'[s] = reindex[s]
      /\ reindex'[p].on = reindex[p].on /\ reindex'[p].cursor = i.id
      /\ reindex'[p].page = reindex[p].page \ {i}
      /\ reindex' \in [Server -> [on : BOOLEAN, cursor : Memory \cup {0}, page : SUBSET Item]]
  <2> DEFINE r == [reindex[p] EXCEPT !.cursor = i.id, !.page = @ \ {i}]
  <2>1. /\ r \in [on : BOOLEAN, cursor : Memory \cup {0}, page : SUBSET Item]
        /\ r.on = reindex[p].on /\ r.cursor = i.id /\ r.page = reindex[p].page \ {i}
    BY <1>2
  <2>2. reindex' = [reindex EXCEPT ![p] = r]
    BY <1>1
  <2> HIDE DEF r
  <2> QED
    BY <2>1, <2>2 DEF IndexInv, Typed
<1>5. /\ row' \in [Memory -> Row \cup {None}] /\ Rows \subseteq Rows'
      /\ left' \in [Server -> SUBSET Memory] /\ seen' \in SUBSET Memory
      /\ VectorOfText' /\ SearchOK'
      /\ \A k \in Memory : row[k] # None => row'[k] # None /\ row'[k].text = row[k].text
      /\ \A k \in Memory \ {i.id} : /\ RowSame(k)
                                 /\ \A s \in Server : k \in left[s] => k \in left'[s]
      /\ \/ /\ row[i.id].text = i.text
            /\ \A s \in Server : server[s].space # None /\ Stale(i.id, server[s].space)'
                                => i.id \in due \cup left'[s] \/ ~row'[i.id].judged
         \/ row[i.id].text # i.text /\ row' = row /\ left' = left
         \/ /\ row' = row
            /\ server[p].space # None /\ Stale(i.id, server[p].space)
               => i.id \in left'[p] \/ ~row[i.id].judged
            /\ \A s \in Server : i.id \in left[s] => i.id \in left'[s]
  <2>1. CASE StoreEmbedding(i, server[p].space)
    <3>1. server[p].space \in Space \cup {None}
      BY DEF IndexInv, Typed
    <3>2. UNCHANGED <<server, query, ranked>>
      BY <1>1
    <3>3. /\ row' \in [Memory -> Row \cup {None}] /\ Rows \subseteq Rows'
          /\ left' \in [Server -> SUBSET Memory] /\ seen' \in SUBSET Memory
          /\ VectorOfText' /\ SearchOK'
          /\ \A k \in Memory : row[k] # None => row'[k] # None /\ row'[k].text = row[k].text
          /\ \A k \in Memory \ {i.id} : /\ RowSame(k)
                                     /\ \A s \in Server : k \in left[s] => k \in left'[s]
          /\ row[i.id].text = i.text =>
               \A s \in Server : server[s].space # None /\ Stale(i.id, server[s].space)'
                                 => i.id \in due \cup left'[s] \/ ~row'[i.id].judged
          /\ row[i.id].text # i.text => row' = row /\ left' = left
      BY <1>2, <1>3, <2>1, <3>1, <3>2, EmbeddedOK
    <3> QED
      BY <3>3
  <2>2. CASE /\ left' = IF LeftOut(row[i.id], server[p].space)
                        THEN [left EXCEPT ![p] = @ \cup {i.id}] ELSE left
             /\ UNCHANGED <<row, seen>>
    <3>1. VectorOfText' /\ SearchOK'
      BY <1>1, <2>2, SearchRowsStay DEF IndexInv, VectorOfText
    <3>2. left \in [Server -> SUBSET Memory]
      BY DEF IndexInv, Typed
    <3>3. /\ left' \in [Server -> SUBSET Memory]
          /\ LeftOut(row[i.id], server[p].space) => i.id \in left'[p]
          /\ \A s \in Server : left[s] \subseteq left'[s]
      BY <1>2, <2>2, <3>2
    <3> QED
      BY <2>2, <3>1, <3>3 DEF IndexInv, Typed, RowSame, Rows, LeftOut, Stale
  <2> QED
    BY <1>1, <2>1, <2>2
<1>6. Typed' /\ QueueOK'
  BY <1>1, <1>4, <1>5 DEF IndexInv, Typed, QueueOK, Held
<1>7. \A s \in Server, k \in Memory \ {i.id} : Covered(s, k) => Covered(s, k)'
  BY <1>1, <1>5, StaysCovered
<1>8. ASSUME NEW s \in Server
      PROVE  \/ server[s].space # None /\ Stale(i.id, server[s].space)' => Covered(s, i.id)'
             \/ RowSame(i.id) /\ (Covered(s, i.id) => Covered(s, i.id)')
  <2>1. CASE \A q \in Server : server[q].space # None /\ Stale(i.id, server[q].space)'
                              => i.id \in due \cup left'[q] \/ ~row'[i.id].judged
    BY <1>1, <2>1 DEF Covered
  <2>2. CASE row' = row /\ \A q \in Server : i.id \in left[q] => i.id \in left'[q]
    BY <1>1, <1>2, <2>2, StaysCovered DEF RowSame
  <2> QED
    BY <1>5, <2>1, <2>2
<1>9. ASSUME NEW s \in Server PROVE WorkOK(s)'
  <2>1. worker'[s] # None => row'[worker'[s].id] # None
    BY <1>1, <1>5 DEF IndexInv, ServerOK, WorkOK, Typed, Task
  <2>2. ~server'[s].up => reindex'[s] = NotReindexing /\ worker'[s] = None
    BY <1>1, <1>4 DEF IndexInv, ServerOK, WorkOK, NotReindexing
  <2> QED
    BY <2>1, <2>2 DEF WorkOK, NotReindexing
<1>10. ASSUME NEW s \in Server, s # p PROVE ServerOK(s)'
  <2>1. PageOK(s)' /\ \A k \in Memory : ComesBy(s, k)'
    BY <1>1, <1>3, <1>4, <1>5, <1>7, <1>8, <1>10, OthersOK
  <2> QED
    BY <1>9, <2>1 DEF ServerOK
<1>11. ServerOK(p)'
  <2>1. \A k \in Memory \ {i.id} : Stale(k, server[p].space)' <=> Stale(k, server[p].space)
    BY <1>1, <1>5 DEF Stale, RowSame
  <2>2. PageOK(p)'
    <3>1. ASSUME NEW j \in reindex[p].page, j # i
          PROVE  /\ row'[j.id] # None /\ j.id > i.id
                 /\ /\ server[p].space # None /\ Stale(j.id, server[p].space)'
                    /\ row'[j.id].text # j.text
                    => Covered(p, j.id)'
      <4>1. j.id > i.id /\ j.id \in Memory
        BY <1>1, <1>2, <3>1 DEF Item
      <4>2. j.id # i.id
        <5>1. i.id \in Nat /\ j.id \in Nat
          BY ONLY <1>2, <4>1, MemoryIsNat
        <5> QED
          BY <4>1, <5>1
      <4>3. /\ row[j.id] # None
            /\ server[p].space # None /\ Stale(j.id, server[p].space) /\ row[j.id].text # j.text
               => Covered(p, j.id)
        BY DEF IndexInv, ServerOK, PageOK
      <4> QED
        BY <1>5, <1>7, <2>1, <4>1, <4>2, <4>3 DEF RowSame
    <3>2. \A j, k \in reindex[p].page : k.id = j.id => k = j
      BY DEF IndexInv, ServerOK, PageOK
    <3> QED
      BY <1>1, <1>4, <3>1, <3>2 DEF PageOK
  <2>3. ASSUME NEW m \in Memory PROVE ComesBy(p, m)'
    <3> SUFFICES ASSUME server[p].up, server[p].space # None, Stale(m, server[p].space)'
                 PROVE  Covered(p, m)' \/ m \in Ahead(p)'
      BY <1>1 DEF ComesBy
    <3>1. CASE m = i.id
      <4>1. CASE i.id \in due \cup left'[p] \/ ~row'[i.id].judged
        BY <1>1, <3>1, <4>1 DEF Covered
      <4>2. CASE row[i.id].text # i.text /\ row' = row /\ left' = left
        <5>1. Covered(p, i.id)
          BY <1>1, <1>3, <3>1, <4>2 DEF Stale
        <5> QED
          BY <1>1, <1>2, <3>1, <4>2, <5>1, StaysCovered DEF RowSame
      <4>3. CASE row' = row /\ (server[p].space # None /\ Stale(i.id, server[p].space)
                                => i.id \in left'[p] \/ ~row[i.id].judged)
        BY <1>1, <3>1, <4>3 DEF Covered, Stale
      <4> QED
        BY <1>5, <3>1, <4>1, <4>2, <4>3
    <3>2. CASE m # i.id
      <4>1. Covered(p, m) \/ m \in Ahead(p)
        BY <2>1, <3>2 DEF IndexInv, ServerOK, ComesBy
      <4>2. CASE Covered(p, m)
        BY <1>7, <3>2, <4>2
      <4>3. CASE m \in Ahead(p)
        <5>1. /\ reindex[p].on
              /\ (\E k \in reindex[p].page : k.id = m) \/ (\A k \in reindex[p].page : k.id < m)
          BY <4>3 DEF Ahead
        <5>2. m > i.id
          BY <1>1, <1>2, <3>2, <5>1, Constants
        <5>3. (\E k \in reindex'[p].page : k.id = m) \/ (\A k \in reindex'[p].page : k.id < m)
          BY <1>4, <3>2, <5>1
        <5> QED
          BY <1>4, <5>1, <5>2, <5>3 DEF Ahead
      <4> QED
        BY <4>1, <4>2, <4>3
    <3> QED
      BY <3>1, <3>2
  <2> QED
    BY <1>9, <2>2, <2>3 DEF ServerOK
<1> QED
  BY <1>5, <1>6, <1>10, <1>11 DEF IndexInv

-----------------------------------------------------------------------------
(* Starts and stops.                                                       *)

LEMMA StopOK ==
    ASSUME IndexInv, NEW p \in Server, Stop(p)
    PROVE  IndexInv'
<1>1. /\ server' = [server EXCEPT ![p] = [up |-> FALSE, space |-> None]]
      /\ reindex' = [reindex EXCEPT ![p] = NotReindexing]
      /\ worker' = [worker EXCEPT ![p] = None]
      /\ due' = IF worker[p] # None /\ worker[p].leased THEN due \cup {worker[p].id} ELSE due
      /\ left' = [left EXCEPT ![p] = {}]
      /\ UNCHANGED <<row, attempts, query, ranked, seen>>
  BY DEF Stop, searchVars
<1>2. /\ server' \in [Server -> [up : BOOLEAN, space : Space \cup {None}]]
      /\ reindex' \in [Server -> [on : BOOLEAN, cursor : Memory \cup {0}, page : SUBSET Item]]
      /\ worker' \in [Server -> Task \cup {None}] /\ left' \in [Server -> SUBSET Memory]
      /\ \A s \in Server \ {p} : /\ server'[s] = server[s] /\ reindex'[s] = reindex[s]
                              /\ worker'[s] = worker[s] /\ left'[s] = left[s]
      /\ ~server'[p].up /\ reindex'[p] = NotReindexing /\ worker'[p] = None
  <2>1. [up |-> FALSE, space |-> None] \in [up : BOOLEAN, space : Space \cup {None}]
    OBVIOUS
  <2>2. NotReindexing \in [on : BOOLEAN, cursor : Memory \cup {0}, page : SUBSET Item]
    BY DEF NotReindexing
  <2> QED
    BY <1>1, <2>1, <2>2 DEF IndexInv, Typed
<1>3. due \subseteq due' /\ due' \subseteq Rows
  BY <1>1 DEF IndexInv, Typed, ServerOK, WorkOK, Rows, Task
<1>4. Typed' /\ VectorOfText' /\ SearchOK'
  BY <1>1, <1>2, <1>3, SearchRowsStay DEF IndexInv, Typed, Rows, VectorOfText
<1>5. QueueOK'
  <2>1. due' \cup Held' \subseteq due \cup Held
    BY <1>1, <1>2 DEF Held
  <2> QED
    BY <1>1, <1>2, <2>1 DEF IndexInv, QueueOK
<1>6. ASSUME NEW s \in Server, s # p PROVE ServerOK(s)'
  <2>1. WorkOK(s)'
    BY <1>1, <1>2, <1>6 DEF IndexInv, ServerOK, WorkOK, NotReindexing
  <2>2. ASSUME NEW m \in Memory PROVE Covered(s, m) => Covered(s, m)'
    <3>1. CASE worker[p] # None /\ worker[p].leased /\ worker[p].id = m
      BY <1>1, <3>1 DEF Covered
    <3>2. CASE ~(worker[p] # None /\ worker[p].leased /\ worker[p].id = m)
      BY <1>1, <1>2, <1>3, <1>6, <3>2, StaysCovered DEF RowSame
    <3> QED
      BY <3>1, <3>2
  <2>3. PageOK(s)' /\ \A k \in Memory : ComesBy(s, k)'
    BY <1>1, <1>2, <1>6, <2>2, OthersOK DEF RowSame
  <2> QED
    BY <2>1, <2>3 DEF ServerOK
<1>7. ServerOK(p)'
  BY <1>2 DEF ServerOK, WorkOK, PageOK, ComesBy, NotReindexing
<1> QED
  BY <1>4, <1>5, <1>6, <1>7 DEF IndexInv

\* A reindex that starts will come by every memory; where the look for stale
\* memories fails, they are left.
LEMMA StartOK ==
    ASSUME IndexInv, NEW p \in Server, NEW config \in Configured[p], Start(p, config)
    PROVE  IndexInv'
<1> DEFINE space == IF Fits(New(config)) THEN New(config) ELSE None
           look == space # None /\ \E m \in Memory : Stale(m, space)
           rest == {m \in Memory : LeftOut(row[m], space)}
<1>1. /\ ~server[p].up
      /\ server' = [server EXCEPT ![p] = [up |-> TRUE, space |-> space]]
      /\ UNCHANGED <<row, due, attempts, worker, query, ranked, seen>>
      /\ \/ reindex' = [reindex EXCEPT ![p].on = look] /\ left' = left
         \/ reindex' = reindex /\ left' = [left EXCEPT ![p] = rest]
  BY DEF Start, queueVars, searchVars
<1>2. space \in Space \cup {None}
  BY DEF Space
<1>3. look \in BOOLEAN
  OBVIOUS
<1>4. /\ look <=> space # None /\ \E m \in Memory : Stale(m, space)
      /\ rest \subseteq Memory
      /\ \A m \in Memory : space # None /\ Stale(m, space) => m \in rest \/ ~row[m].judged
  BY DEF LeftOut, Stale
<1> HIDE DEF space, look, rest
<1>5. reindex[p] = NotReindexing /\ worker[p] = None
  BY <1>1 DEF IndexInv, ServerOK, WorkOK
<1>6. /\ server' \in [Server -> [up : BOOLEAN, space : Space \cup {None}]]
      /\ server'[p].up /\ server'[p].space = space
      /\ \A s \in Server \ {p} : server'[s] = server[s]
  <2>1. [up |-> TRUE, space |-> space] \in [up : BOOLEAN, space : Space \cup {None}]
    BY <1>2
  <2> QED
    BY <1>1, <2>1 DEF IndexInv, Typed
<1>7. /\ left' \in [Server -> SUBSET Memory]
      /\ \A s \in Server \ {p} : reindex'[s] = reindex[s] /\ left'[s] = left[s]
      /\ reindex'[p].page = {} /\ reindex'[p].cursor = 0
      /\ (reindex'[p].on <=> look) \/ left'[p] = rest
      /\ reindex' \in [Server -> [on : BOOLEAN, cursor : Memory \cup {0}, page : SUBSET Item]]
  <2>1. CASE reindex' = [reindex EXCEPT ![p].on = look] /\ left' = left
    <3> DEFINE r == [reindex[p] EXCEPT !.on = look]
    <3>1. /\ r \in [on : BOOLEAN, cursor : Memory \cup {0}, page : SUBSET Item]
          /\ r.on = look /\ r.page = {} /\ r.cursor = 0
      BY <1>3, <1>5 DEF NotReindexing
    <3>2. reindex' = [reindex EXCEPT ![p] = r]
      BY <2>1
    <3> HIDE DEF r
    <3> QED
      BY <2>1, <3>1, <3>2 DEF IndexInv, Typed
  <2>2. CASE reindex' = reindex /\ left' = [left EXCEPT ![p] = rest]
    BY <1>4, <1>5, <2>2 DEF IndexInv, Typed, NotReindexing
  <2> QED
    BY <1>1, <2>1, <2>2
<1>8. Typed' /\ VectorOfText' /\ SearchOK' /\ QueueOK'
  BY <1>1, <1>6, <1>7, SearchRowsStay DEF IndexInv, Typed, Rows, VectorOfText, QueueOK, Held
<1>9. ASSUME NEW s \in Server, s # p PROVE ServerOK(s)'
  <2>1. WorkOK(s)'
    BY <1>1, <1>6, <1>7, <1>9 DEF IndexInv, ServerOK, WorkOK, NotReindexing
  <2>2. \A k \in Memory : Covered(s, k) => Covered(s, k)'
    BY <1>1, <1>7, <1>9, StaysCovered DEF RowSame
  <2>3. PageOK(s)' /\ \A k \in Memory : ComesBy(s, k)'
    BY <1>1, <1>6, <1>7, <1>9, <2>2, OthersOK DEF RowSame
  <2> QED
    BY <2>1, <2>3 DEF ServerOK
<1>10. ServerOK(p)'
  <2>1. WorkOK(p)' /\ PageOK(p)'
    BY <1>1, <1>5, <1>6, <1>7 DEF WorkOK, PageOK
  <2>2. ASSUME NEW m \in Memory PROVE ComesBy(p, m)'
    <3> SUFFICES ASSUME space # None, Stale(m, space)
                 PROVE  Covered(p, m)' \/ m \in Ahead(p)'
      BY <1>1, <1>6 DEF ComesBy, Stale
    <3>1. CASE left'[p] = rest
      BY <1>1, <1>4, <3>1 DEF Covered
    <3>2. CASE reindex'[p].on <=> look
      <4>1. reindex'[p].on
        BY <1>4, <3>2
      <4>2. m > 0
        BY MemoryIsNat
      <4> QED
        BY <1>7, <4>1, <4>2 DEF Ahead
    <3> QED
      BY <1>7, <3>1, <3>2
  <2> QED
    BY <2>1, <2>2 DEF ServerOK
<1> QED
  BY <1>8, <1>9, <1>10 DEF IndexInv

-----------------------------------------------------------------------------
(* The theorems.                                                           *)

\* Every reachable state satisfies the invariant.
THEOREM IndexInvariant == Spec => []IndexInv
<1>1. ASSUME IndexInv, [Next]_vars PROVE IndexInv'
  <2> USE <1>1
  <2>1. CASE UNCHANGED vars
    BY <2>1 DEF vars, queueVars, searchVars, IndexInv, Typed, VectorOfText, SearchOK, QueueOK,
         ServerOK, WorkOK, PageOK, ComesBy, Covered, UnderWay, Held, Ahead, Stale, Visible,
         Rows, NotReindexing
  <2>2. CASE \E m \in Memory : Push(m) \/ Delete(m)
    BY <2>2, PushOK, DeleteOK
  <2>3. CASE Rank \/ Fetch \/ Abandon \/ \E s \in Server : Check(s)
    BY <2>3, SearchStepOK
  <2>4. CASE \E s \in Server : Stop(s) \/ Reindex(s) \/ Work(s)
    BY <2>4, StopOK, ReindexPageOK, ReindexOneOK, TakeOK, JudgeOK, EmbedOK, FailOK,
       LoseLeaseOK, SweepOK
       DEF Reindex, Work
  <2>5. CASE \E s \in Server : \E config \in Configured[s] : Start(s, config)
    BY <2>5, StartOK
  <2> QED
    BY <2>1, <2>2, <2>3, <2>4, <2>5 DEF Next
<1> QED
  BY <1>1, IndexInit, PTL DEF Spec

\* Every variable keeps its type, no memory is charged more failures than the limit,
\* and a reindex only has memories after its cursor.
THEOREM IndexTypeCorrect == Spec => []TypeOK
<1>1. ASSUME IndexInv PROVE TypeOK
  <2>1. \A s \in Server : \A i \in reindex[s].page : i.id > reindex[s].cursor
    BY <1>1 DEF IndexInv, ServerOK, PageOK
  <2>2. seen \subseteq Rows /\ (ranked # None => ranked \subseteq Hit)
    BY <1>1 DEF IndexInv, Typed, SearchOK, Visible, Rows
  <2> QED
    BY <1>1, <2>1, <2>2 DEF IndexInv, Typed, TypeOK
<1> QED
  BY <1>1, IndexInvariant, PTL

\* No memory is forgotten outside of a server's space, but where a failure or
\* another server left it there (sqlite_embedding.go, cmd/server/main.go, worker.go).
THEOREM NeverForgotten == Spec => []NoneForgotten
<1>1. IndexInv => NoneForgotten
  BY DEF IndexInv, ServerOK, ComesBy, Covered, NoneForgotten
<1> QED
  BY <1>1, IndexInvariant, PTL

\* A search compares vectors of its own space only, leaves out nothing that it
\* could have found when it was found ready, and returns what it compared, unless
\* that was rewritten, hidden or deleted between its two statements.
THEOREM AnswersAlwaysWhole == Spec => AnswersAreWhole
<1> DEFINE Whole == /\ Rank => \A m \in seen : \E h \in ranked' : h.id = m
                    /\ Fetch => \A h \in ranked :
                         /\ h.vec.space = query
                         /\ h.id \in seen => Visible(h.id) /\ row[h.id].text = h.vec.text
<1>1. ASSUME IndexInv, Rank
      PROVE  \A m \in seen : \E h \in ranked' : h.id = m
  <2>1. ASSUME NEW m \in seen PROVE \E h \in ranked' : h.id = m
    <3>1. /\ m \in Memory /\ Visible(m) /\ row[m].vec # None /\ row[m].vec.space = query
          /\ ranked' = Compared(query)
      BY <1>1, <2>1 DEF IndexInv, Typed, SearchOK, Rank
    <3>2. [id |-> m, vec |-> row[m].vec] \in ranked'
      BY <3>1 DEF Compared
    <3> QED
      BY <3>2
  <2> QED
    BY <2>1
<1>2. ASSUME IndexInv, Fetch
      PROVE  \A h \in ranked : /\ h.vec.space = query
                               /\ h.id \in seen => Visible(h.id) /\ row[h.id].text = h.vec.text
  BY <1>2 DEF IndexInv, SearchOK, Fetch
<1>3. IndexInv /\ [Next]_vars => [Whole]_vars
  BY <1>1, <1>2
<1> QED
  BY <1>3, IndexInvariant, PTL DEF Spec, AnswersAreWhole

=============================================================================
