------------------------------ MODULE BlockMap ------------------------------
(* What a table of memory blocks promises: it is a map from addresses to     *)
(* blocks, and an operation that does not fit the map is refused.  Nothing   *)
(* is promised of the map after an operation has been refused.  What it does *)
(* not keep is said as well: while it is empty the program may crash in it.  *)
EXTENDS Integers

CONSTANTS Address, Size, Kind

VARIABLES live, answer

Exists == -2
Missing == -3
Crash == -5
Ok(did, old) == [code |-> 0, old |-> old, did |-> did]
NoBlock == [ptr |-> 0, type |-> 0, size |-> 0]
Refused(did, code) == [code |-> code, old |-> NoBlock, did |-> did]

At(a) == [ptr |-> a, type |-> live[a].type, size |-> live[a].size]
Without(a) == [x \in DOMAIN live \ {a} |-> live[x]]
With(m, a, t, s) == [x \in DOMAIN m \cup {a} |-> IF x = a THEN [type |-> t, size |-> s] ELSE m[x]]

Allocated(a, t, s) ==
    IF a \in DOMAIN live THEN answer' = Refused("alloc", Exists)
    ELSE answer' = Ok("alloc", NoBlock) /\ live' = With(live, a, t, s)

Freed(a) ==
    IF a \notin DOMAIN live THEN answer' = Refused("free", Missing)
    ELSE answer' = Ok("free", At(a)) /\ live' = Without(a)

\* A block is resized or moved and keeps its kind.
Moved(a, b, s) ==
    IF a \notin DOMAIN live THEN answer' = Refused("move", Missing)
    ELSE IF b # a /\ b \in DOMAIN live THEN answer' = Refused("move", Exists)
    ELSE answer' = Ok("move", At(a)) /\ live' = With(Without(a), b, live[a].type, s)

\* A reallocation that failed leaves the block alone.
Kept(a) ==
    IF a # 0 /\ a \notin DOMAIN live THEN answer' = Refused("keep", Missing)
    ELSE answer' = Ok("keep", IF a = 0 THEN NoBlock ELSE At(a)) /\ UNCHANGED live

\* Instead of a refusal: to look for a block in a map without any is a crash.
Crashed(did) == DOMAIN live = {} /\ answer' = Refused(did, Crash)

ABInit == live = [a \in {} |-> 0] /\ answer = Ok("none", NoBlock)

ABNext ==
    /\ answer.code = 0
    /\ \/ answer'.did = "alloc" /\ \E a \in Address, t \in Kind, s \in Size : Allocated(a, t, s)
       \/ answer'.did = "free" /\ \E a \in Address \cup {0} : Freed(a)
       \/ answer'.did = "move" /\ \E a, b \in Address, s \in Size : Moved(a, b, s)
       \/ answer'.did = "keep" /\ \E a \in Address \cup {0} : Kept(a)
       \/ \E d \in {"alloc", "free", "move", "keep"} : answer' = Refused(d, 12)
       \/ \E d \in {"free", "move", "keep"} : Crashed(d)

ABSpec == ABInit /\ [][ABNext]_<<live, answer>>
=============================================================================
