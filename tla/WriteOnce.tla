------------------------------ MODULE WriteOnce ------------------------------
(***************************************************************************)
(* What a write under a key promises, without ledger, gates, transactions  *)
(* or rows: of all the requests that carry the key one writes, at one      *)
(* moment, and every answer is of that write, until the key is forgotten   *)
(* and has another life.  A write can be erased; what is asked for after   *)
(* that is answered without its content.                                   *)
(***************************************************************************)
EXTENDS Naturals

CONSTANTS
    Client,   \* requests that can be in flight at once
    Key,      \* the keys
    Payload,  \* what a request can say
    Memory,   \* where a write may leave its content
    Content,  \* the contents a write may leave
    Blank,    \* the content of an erased write
    None      \* no request

VARIABLES
    life,     \* life[k]: how often k was forgotten
    written,  \* the writes made
    erased,   \* those of them that were erased
    asked,    \* asked[c]: what c waits for an answer to, or None
    told      \* what clients were answered

vars == <<life, written, erased, asked, told>>

Init ==
    /\ life = [k \in Key |-> 0]
    /\ written = {}
    /\ erased = {}
    /\ asked = [c \in Client |-> None]
    /\ told = {}

Erasure(w) == [w EXCEPT !.content = Blank, !.created = FALSE]

\* gone is what c must not be shown any more.
Ask(c, k, p) ==
    /\ asked[c] = None
    /\ asked' = [asked EXCEPT ![c] = [key |-> k, payload |-> p, gone |-> erased]]
    /\ UNCHANGED <<life, written, erased, told>>

\* A request that ends without an answer, whether or not it was the one that
\* wrote.
Drop(c) ==
    /\ asked[c] # None
    /\ asked' = [asked EXCEPT ![c] = None]
    /\ UNCHANGED <<life, written, erased, told>>

Written(k) == \E a \in written : a.key = k /\ a.life = life[k]

\* The only step that writes: nothing was written yet in this life of the key.
Execute(c) ==
    /\ asked[c] # None
    /\ ~Written(asked[c].key)
    /\ \E m \in Memory, x \in Content, inserts \in BOOLEAN :
          written' = written \cup
              {[key |-> asked[c].key, payload |-> asked[c].payload, memory |-> m,
                content |-> x, created |-> inserts, life |-> life[asked[c].key]]}
    /\ UNCHANGED <<life, erased, asked, told>>

\* The write of the request's key and payload, whole unless it was erased.
Answer(c, a, t) ==
    /\ asked[c] # None
    /\ a.key = asked[c].key /\ a.payload = asked[c].payload
    /\ t \in {a, Erasure(a)}
    /\ a \in asked[c].gone => t = Erasure(a)
    /\ told' = told \cup {t}
    /\ asked' = [asked EXCEPT ![c] = None]
    /\ UNCHANGED <<life, written, erased>>

Erase(S) ==
    /\ erased' = erased \cup S
    /\ UNCHANGED <<life, written, asked, told>>

\* Only a key that was written under has a next life.
Forget(k) ==
    /\ Written(k)
    /\ life' = [life EXCEPT ![k] = @ + 1]
    /\ UNCHANGED <<written, erased, asked, told>>

Next ==
    \/ \E S \in SUBSET written : Erase(S)
    \/ \E k \in Key : Forget(k)
    \/ \E c \in Client :
          \/ Drop(c) \/ Execute(c)
          \/ \E k \in Key, p \in Payload : Ask(c, k, p)
          \/ \E a \in written : \E t \in {a, Erasure(a)} : Answer(c, a, t)

Spec == Init /\ [][Next]_vars
=============================================================================
