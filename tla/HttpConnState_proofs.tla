------------------------ MODULE HttpConnState_proofs ------------------------
(***************************************************************************)
(* For any number of connections and of messages, and any interleaving of  *)
(* Parse, OnConnClose and the janitor: the numbering of an incarnation is  *)
(* exact unless the janitor has deleted its counters.                      *)
(***************************************************************************)
EXTENDS HttpConnState, TLAPS

(* Where Parse is: it has a connection, room for its messages, and, after  *)
(* stateFor, an object.                                                    *)
ParseInv ==
  /\ pc # "idle" => conn \in Conns /\ count[conn][dir] + left <= MaxMsgs
  /\ pc \in {"idle", "stateFor"} => state = NoObj
  /\ pc = "stateFor" => used # Objs
  /\ pc \in {"stamp", "read"} => state \in used

(* Objects in the map are allocated and belong to one connection, the one  *)
(* in Parse's hands included; a counter of an unallocated object is 0.     *)
OwnerInv ==
  /\ \A c \in Conns : connStates[c] # NoObj => connStates[c] \in used
  /\ \A c, e \in Conns : c # e /\ connStates[c] # NoObj => connStates[c] # connStates[e]
  /\ state # NoObj => \A c \in Conns : c # conn => connStates[c] # state
  /\ \A o \in Objs \ used : \A d \in Dirs : seq[o][d] = 0

(* Incarnation inc[c] has kept its counters.                               *)
Kept(c) == <<c, inc[c]>> \notin evicted

(* Counters that were kept count the messages, and Parse uses them.        *)
CountInv ==
  \A c \in Conns : Kept(c) =>
    /\ \A d \in Dirs : count[c][d] = IF connStates[c] = NoObj THEN 0 ELSE seq[connStates[c]][d]
    /\ state # NoObj /\ conn = c => connStates[c] = state

(* The inductive invariant.                                                *)
NumberInv == TypeOK /\ ParseInv /\ OwnerInv /\ CountInv /\ ExactUnlessEvicted

-----------------------------------------------------------------------------
LEMMA NumberInit == Init => NumberInv
<1> SUFFICES ASSUME Init PROVE NumberInv
  OBVIOUS
<1>1. TypeOK
  BY ConnStateAssumption DEF Init, TypeOK, Dirs
<1>2. ParseInv /\ OwnerInv /\ CountInv /\ ExactUnlessEvicted
  BY DEF Init, ParseInv, OwnerInv, CountInv, ExactUnlessEvicted
<1> QED BY <1>1, <1>2 DEF NumberInv

(* Parse is called, or stateFor finds an entry, or the time is stamped.    *)
LEMMA BeginStep ==
  ASSUME NumberInv, NEW c \in Conns, NEW d \in Dirs, NEW n \in 1..MaxChunk, ParseBegin(c, d, n)
  PROVE  NumberInv'
<1> USE DEF parseVars, gcVars, histVars
<1>1. /\ pc = "idle" /\ count[c][d] + n <= MaxMsgs /\ used # Objs
      /\ pc' = "stateFor" /\ conn' = c /\ dir' = d /\ left' = n
      /\ gc' \in {gc, "idle"}
      /\ UNCHANGED <<connStates, seq, last, used, state, todo, victim, inc, count, events, evicted>>
  BY DEF ParseBegin, StartGC
<1>2. TypeOK'
  BY <1>1, ConnStateAssumption DEF NumberInv, TypeOK
<1>3. state = NoObj
  BY <1>1 DEF NumberInv, ParseInv
<1>4. ParseInv'
  BY <1>1, <1>3 DEF ParseInv
<1>5. OwnerInv'
  BY <1>1, <1>3 DEF NumberInv, OwnerInv
<1>6. CountInv' /\ ExactUnlessEvicted'
  BY <1>1, <1>3 DEF NumberInv, CountInv, Kept, ExactUnlessEvicted
<1> QED BY <1>2, <1>4, <1>5, <1>6 DEF NumberInv

LEMMA FoundStep ==
  ASSUME NumberInv, StateFound
  PROVE  NumberInv'
<1> USE DEF parseVars, gcVars, histVars
<1>1. /\ pc = "stateFor" /\ connStates[conn] # NoObj /\ state' = connStates[conn] /\ pc' = "stamp"
      /\ UNCHANGED <<connStates, seq, last, used, conn, dir, left, gc, todo, victim, inc, count,
                     events, evicted>>
  BY DEF StateFound
<1>2. conn \in Conns /\ connStates[conn] \in used
  BY <1>1 DEF NumberInv, ParseInv, OwnerInv
<1>3. TypeOK'
  BY <1>1, <1>2 DEF NumberInv, TypeOK
<1>4. ParseInv'
  BY <1>1, <1>2 DEF NumberInv, ParseInv
<1>5. OwnerInv'
  BY <1>1, <1>2 DEF NumberInv, OwnerInv
<1>6. CountInv' /\ ExactUnlessEvicted'
  BY <1>1 DEF NumberInv, CountInv, Kept, ExactUnlessEvicted
<1> QED BY <1>3, <1>4, <1>5, <1>6 DEF NumberInv

(* A new object: nobody's, and its counters are 0.                         *)
LEMMA FreshStep ==
  ASSUME NumberInv, StateFresh
  PROVE  NumberInv'
<1> USE DEF parseVars, gcVars, histVars
<1> DEFINE o == CHOOSE o \in Objs : o \notin used
<1>1. /\ pc = "stateFor" /\ connStates[conn] = NoObj /\ state' = o /\ used' = used \cup {o}
      /\ connStates' = [connStates EXCEPT ![conn] = o] /\ pc' = "stamp"
      /\ UNCHANGED <<seq, last, conn, dir, left, gc, todo, victim, inc, count, events, evicted>>
  BY DEF StateFresh
<1>2. conn \in Conns /\ used # Objs /\ used \in SUBSET Objs
  BY <1>1 DEF NumberInv, TypeOK, ParseInv
<1>3. o \in Objs /\ o \notin used
  <2>1. \E x \in Objs : x \notin used
    BY <1>2
  <2> QED BY <2>1
<1> HIDE DEF o
<1>4. o # NoObj /\ connStates \in [Conns -> Objs \cup {NoObj}]
  BY <1>3, ConnStateAssumption DEF NumberInv, TypeOK
<1>5. TypeOK'
  BY <1>1, <1>2, <1>3 DEF NumberInv, TypeOK
<1>6. ParseInv'
  BY <1>1, <1>2, <1>3 DEF NumberInv, ParseInv
<1>7. \A c \in Conns : connStates'[c] = IF c = conn THEN o ELSE connStates[c]
  BY <1>1, <1>4
<1>8. OwnerInv'
  BY <1>1, <1>2, <1>3, <1>4, <1>7 DEF NumberInv, OwnerInv
<1>9. \A d \in Dirs : seq[o][d] = 0
  BY <1>3 DEF NumberInv, OwnerInv
<1>10. CountInv'
  <2> SUFFICES ASSUME NEW c \in Conns, Kept(c)
               PROVE  /\ \A d \in Dirs : count[c][d] = IF connStates'[c] = NoObj THEN 0
                                                       ELSE seq[connStates'[c]][d]
                      /\ state' # NoObj /\ conn = c => connStates'[c] = state'
    BY <1>1 DEF CountInv, Kept
  <2> QED BY <1>1, <1>4, <1>7, <1>9 DEF NumberInv, CountInv
<1>11. ExactUnlessEvicted'
  BY <1>1 DEF NumberInv, ExactUnlessEvicted
<1> QED BY <1>5, <1>6, <1>8, <1>10, <1>11 DEF NumberInv

LEMMA ReadStep ==
  ASSUME NumberInv, ReadMessage
  PROVE  NumberInv'
<1> USE DEF parseVars, gcVars, histVars
<1> DEFINE e == [conn |-> conn, inc |-> inc[conn], dir |-> dir,
                 seq |-> seq[state][dir], n |-> count[conn][dir]]
<1>1. /\ pc = "read" /\ left > 0 /\ seq' = [seq EXCEPT ![state][dir] = @ + 1]
      /\ events' = events \cup {e} /\ count' = [count EXCEPT ![conn][dir] = @ + 1]
      /\ left' = left - 1
      /\ UNCHANGED <<connStates, last, used, pc, conn, dir, state, gc, todo, victim, inc, evicted>>
  BY DEF ReadMessage, MoreToRead
<1>2. /\ conn \in Conns /\ state \in used /\ state \in Objs /\ state # NoObj /\ dir \in Dirs
      /\ left \in 0..MaxChunk /\ count[conn][dir] + left <= MaxMsgs
      /\ seq \in [Objs -> [Dirs -> Nat]] /\ count \in [Conns -> [Dirs -> 0..MaxMsgs]]
      /\ inc \in [Conns -> 0..MaxInc] /\ connStates \in [Conns -> Objs \cup {NoObj}]
      /\ MaxMsgs \in Nat /\ MaxChunk \in Nat /\ MaxInc \in Nat
  BY <1>1, ConnStateAssumption DEF NumberInv, TypeOK, ParseInv
<1>3. /\ count[conn][dir] + 1 \in 0..MaxMsgs /\ left - 1 \in 0..MaxChunk
      /\ count[conn][dir] \in Nat /\ seq[state][dir] \in Nat
      /\ (count[conn][dir] + 1) + (left - 1) <= MaxMsgs
  BY <1>1, <1>2
<1>4. /\ \A c \in Conns, d \in Dirs :
           count'[c][d] = IF c = conn /\ d = dir THEN count[c][d] + 1 ELSE count[c][d]
      /\ \A o \in Objs, d \in Dirs :
           seq'[o][d] = IF o = state /\ d = dir THEN seq[o][d] + 1 ELSE seq[o][d]
  BY <1>1, <1>2
<1>5. TypeOK'
  <2>1. e \in [conn : Conns, inc : 0..MaxInc, dir : Dirs, seq : Nat, n : Nat]
    BY <1>2, <1>3
  <2>2. seq' \in [Objs -> [Dirs -> Nat]]
    BY <1>1, <1>2, <1>3
  <2>3. count' \in [Conns -> [Dirs -> 0..MaxMsgs]]
    BY <1>1, <1>2, <1>3
  <2> HIDE DEF e
  <2> QED BY <1>1, <1>3, <2>1, <2>2, <2>3 DEF NumberInv, TypeOK
<1>6. ParseInv'
  <2>1. count'[conn][dir] + left' <= MaxMsgs
    BY <1>1, <1>2, <1>3, <1>4
  <2> QED BY <1>1, <1>2, <2>1 DEF ParseInv
<1>7. OwnerInv'
  BY <1>1, <1>2, <1>4 DEF NumberInv, OwnerInv
<1>8. CountInv'
  <2> SUFFICES ASSUME NEW c \in Conns, Kept(c)
               PROVE  /\ \A d \in Dirs : count'[c][d] = IF connStates[c] = NoObj THEN 0
                                                        ELSE seq'[connStates[c]][d]
                      /\ state # NoObj /\ conn = c => connStates[c] = state
    BY <1>1 DEF CountInv, Kept
  <2>1. /\ \A d \in Dirs : count[c][d] = IF connStates[c] = NoObj THEN 0 ELSE seq[connStates[c]][d]
        /\ conn = c => connStates[c] = state
    BY <1>2 DEF NumberInv, CountInv
  <2>2. CASE c = conn
    BY <1>2, <1>4, <2>1, <2>2
  <2>3. CASE c # conn
    <3>1. connStates[c] # state /\ connStates[c] \in Objs \cup {NoObj}
      BY <1>2, <2>3 DEF NumberInv, OwnerInv
    <3> QED BY <1>4, <2>1, <2>3, <3>1
  <2> QED BY <2>2, <2>3
<1>9. ExactUnlessEvicted'
  <2>1. e.seq = e.n \/ <<e.conn, e.inc>> \in evicted
    <3>1. CASE Kept(conn)
      <4>1. connStates[conn] = state /\ count[conn][dir] = seq[state][dir]
        BY <1>2, <3>1 DEF NumberInv, CountInv
      <4> QED BY <4>1
    <3>2. CASE ~Kept(conn)
      BY <3>2 DEF Kept
    <3> QED BY <3>1, <3>2
  <2> HIDE DEF e
  <2> QED BY <1>1, <2>1 DEF NumberInv, ExactUnlessEvicted
<1> QED BY <1>5, <1>6, <1>7, <1>8, <1>9 DEF NumberInv

(* The stamp, the end of Parse, and the steps of the janitor that delete   *)
(* nothing.                                                                *)
LEMMA QuietNumber ==
  ASSUME NumberInv, TypeOK', UNCHANGED <<connStates, seq, used, dir, left, inc, count, events, evicted>>,
         \/ UNCHANGED <<pc, conn, state>>
         \/ pc = "stamp" /\ pc' = "read" /\ UNCHANGED <<conn, state>>
         \/ pc' = "idle" /\ state' = NoObj
  PROVE  NumberInv'
<1>1. ParseInv'
  BY DEF NumberInv, ParseInv
<1>2. OwnerInv'
  BY DEF NumberInv, OwnerInv
<1>3. CountInv' /\ ExactUnlessEvicted'
  BY DEF NumberInv, CountInv, Kept, ExactUnlessEvicted
<1> QED BY <1>1, <1>2, <1>3 DEF NumberInv

(* OnConnClose: the next incarnation starts without counters.              *)
LEMMA ConnCloseStep ==
  ASSUME NumberInv, NEW c \in Conns, OnConnClose(c)
  PROVE  NumberInv'
<1> USE DEF parseVars, gcVars, histVars
<1>1. /\ pc = "idle" /\ inc[c] < MaxInc /\ connStates' = [connStates EXCEPT ![c] = NoObj]
      /\ inc' = [inc EXCEPT ![c] = @ + 1] /\ count' = [count EXCEPT ![c] = [d \in Dirs |-> 0]]
      /\ UNCHANGED <<seq, last, used, pc, conn, dir, state, left, gc, todo, victim, events, evicted>>
  BY DEF OnConnClose, Forgotten
<1>2. /\ connStates \in [Conns -> Objs \cup {NoObj}] /\ inc \in [Conns -> 0..MaxInc]
      /\ count \in [Conns -> [Dirs -> 0..MaxMsgs]] /\ MaxInc \in Nat /\ MaxMsgs \in Nat
      /\ state = NoObj
  BY <1>1, ConnStateAssumption DEF NumberInv, TypeOK, ParseInv
<1>3. /\ \A e \in Conns : e # c => /\ connStates'[e] = connStates[e] /\ inc'[e] = inc[e]
                                   /\ count'[e] = count[e]
      /\ connStates'[c] = NoObj /\ \A d \in Dirs : count'[c][d] = 0
  BY <1>1, <1>2
<1>4. TypeOK'
  <2>1. inc' \in [Conns -> 0..MaxInc]
    BY <1>1, <1>2
  <2>2. count' \in [Conns -> [Dirs -> 0..MaxMsgs]] /\ connStates' \in [Conns -> Objs \cup {NoObj}]
    BY <1>1, <1>2
  <2> QED BY <1>1, <2>1, <2>2 DEF NumberInv, TypeOK
<1>5. ParseInv'
  BY <1>1, <1>2 DEF NumberInv, ParseInv
<1>6. OwnerInv'
  BY <1>1, <1>2, <1>3 DEF NumberInv, OwnerInv
<1>7. CountInv'
  BY <1>1, <1>2, <1>3 DEF NumberInv, CountInv, Kept
<1>8. ExactUnlessEvicted'
  BY <1>1 DEF NumberInv, ExactUnlessEvicted
<1> QED BY <1>4, <1>5, <1>6, <1>7, <1>8 DEF NumberInv

(* The janitor deletes whatever is stored under the key by now.            *)
LEMMA DeleteStep ==
  ASSUME NumberInv, GcDelete
  PROVE  NumberInv'
<1> USE DEF parseVars, gcVars, histVars
<1>1. /\ victim # NoConn /\ connStates' = [connStates EXCEPT ![victim] = NoObj]
      /\ evicted' = evicted \cup {<<victim, inc[victim]>>} /\ victim' = NoConn
      /\ UNCHANGED <<seq, last, used, pc, conn, dir, state, left, gc, todo, inc, count, events>>
  BY DEF GcDelete
<1>2. /\ victim \in Conns /\ connStates \in [Conns -> Objs \cup {NoObj}]
      /\ inc \in [Conns -> 0..MaxInc]
  BY <1>1 DEF NumberInv, TypeOK
<1>3. \A c \in Conns : connStates'[c] = IF c = victim THEN NoObj ELSE connStates[c]
  BY <1>1, <1>2
<1>4. TypeOK'
  BY <1>1, <1>2 DEF NumberInv, TypeOK
<1>5. ParseInv'
  BY <1>1 DEF NumberInv, ParseInv
<1>6. OwnerInv'
  BY <1>1, <1>3 DEF NumberInv, OwnerInv
<1>7. CountInv'
  BY <1>1, <1>2, <1>3 DEF NumberInv, CountInv, Kept
<1>8. ExactUnlessEvicted'
  BY <1>1 DEF NumberInv, ExactUnlessEvicted
<1> QED BY <1>4, <1>5, <1>6, <1>7, <1>8 DEF NumberInv

(* NumberInv is inductive.                                                 *)
THEOREM NumberingSafety == Spec => []NumberInv
<1>1. Init => NumberInv
  BY NumberInit
<1>2. NumberInv /\ [Next]_vars => NumberInv'
  <2> SUFFICES ASSUME NumberInv, [Next]_vars PROVE NumberInv'
    OBVIOUS
  <2> USE DEF parseVars, gcVars, histVars
  <2>1. CASE Stamp
    <3>1. TypeOK'
      BY <2>1 DEF Stamp, NumberInv, TypeOK, ParseInv
    <3> QED BY <2>1, <3>1, QuietNumber DEF Stamp
  <2>2. CASE ParseEnd
    <3>1. TypeOK'
      BY <2>2 DEF ParseEnd, NumberInv, TypeOK
    <3> QED BY <2>2, <3>1, QuietNumber DEF ParseEnd
  <2>3. CASE GcTick \/ (\E c \in Conns : GcVisit(c)) \/ GcDone \/ Age \/ UNCHANGED vars
    <3>1. TypeOK'
      BY <2>3 DEF GcTick, GcVisit, GcDone, Age, vars, NumberInv, TypeOK
    <3> QED BY <2>3, <3>1, QuietNumber DEF GcTick, GcVisit, GcDone, Age, vars
  <2> QED BY <2>1, <2>2, <2>3, BeginStep, FoundStep, FreshStep, ReadStep, ConnCloseStep, DeleteStep
          DEF Next, TcpLoop, GcLoop
<1> QED BY <1>1, <1>2, PTL DEF Spec

(* Types.                                                                  *)
THEOREM ConnStateTypeCorrect == Spec => []TypeOK
BY NumberingSafety, PTL DEF NumberInv

(* A 4-tuple used again never inherits counters: the numbering goes wrong  *)
(* only in an incarnation whose entry the janitor has deleted.             *)
THEOREM NumberingExactUnlessEvicted == Spec => []ExactUnlessEvicted
BY NumberingSafety, PTL DEF NumberInv
=============================================================================
