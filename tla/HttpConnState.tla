---------------------------- MODULE HttpConnState ----------------------------
(***************************************************************************)
(* The HTTP parser's per-connection counters and the janitor that evicts   *)
(* them (internal/protocol/http/parser.go).  tcpLoop runs Parse and        *)
(* OnConnClose; gcLoop, started by the first Parse, sweeps connStates      *)
(* every minute and deletes what has been idle for connStateTTL.  The two  *)
(* goroutines share the sync.Map and the atomics, with no lock around a    *)
(* lookup and the use of what it found.                                    *)
(*                                                                         *)
(* A connState is an object: Parse may hold one that is no longer in the   *)
(* map.  Its lastActivity is "zero" until Parse has stamped it, then       *)
(* "recent", and "old" once connStateTTL has passed; "zero" and "old" are  *)
(* both before any cutoff.  Every close marker arrives.                    *)
(***************************************************************************)
EXTENDS Naturals, FiniteSets

CONSTANTS
  Conns,     \* ConnIDs
  Objs,      \* connState objects: bound on the allocations of a behaviour
  NoObj,     \* no entry in the map
  NoConn,
  MaxChunk,  \* most messages in one chunk
  MaxMsgs,   \* bound: messages a direction carries in one incarnation
  MaxInc     \* bound: incarnations of a 4-tuple

ASSUME ConnStateAssumption ==
  /\ NoObj \notin Objs /\ NoConn \notin Conns
  /\ MaxChunk \in Nat /\ MaxMsgs \in Nat /\ MaxInc \in Nat

Dirs == {"client", "server"}

VARIABLES
  connStates,   \* the sync.Map
  seq,          \* seq[o][d]: reqSeq and respSeq of the object
  last,         \* last[o]: lastActivity
  used,         \* objects allocated so far
  pc, conn, dir, state, left,   \* tcpLoop's Parse: its arguments, object, messages to read
  gc, todo, victim,             \* gcLoop: "off", "idle", "sweep"; keys to visit; key to delete
  inc, count,   \* incarnation of each 4-tuple, messages it has carried so far
  events,       \* events emitted: sequence number given, and position in the stream
  evicted       \* <<c, i>>: the janitor deleted the counters of incarnation i

parseVars == <<pc, conn, dir, state, left>>
gcVars    == <<gc, todo, victim>>
histVars  == <<inc, count, events, evicted>>
vars      == <<connStates, seq, last, used, parseVars, gcVars, histVars>>

(* Every variable has its type.                                            *)
TypeOK ==
  /\ connStates \in [Conns -> Objs \cup {NoObj}]
  /\ seq \in [Objs -> [Dirs -> Nat]]
  /\ last \in [Objs -> {"zero", "recent", "old"}]
  /\ used \in SUBSET Objs
  /\ pc \in {"idle", "stateFor", "stamp", "read"}
  /\ conn \in Conns \cup {NoConn} /\ dir \in Dirs
  /\ state \in Objs \cup {NoObj} /\ left \in 0..MaxChunk
  /\ gc \in {"off", "idle", "sweep"}
  /\ todo \in SUBSET Conns /\ victim \in Conns \cup {NoConn}
  /\ inc \in [Conns -> 0..MaxInc]
  /\ count \in [Conns -> [Dirs -> 0..MaxMsgs]]
  /\ events \in SUBSET [conn : Conns, inc : 0..MaxInc, dir : Dirs, seq : Nat, n : Nat]
  /\ evicted \in SUBSET (Conns \X (0..MaxInc))

Init ==
  /\ connStates = [c \in Conns |-> NoObj]
  /\ seq = [o \in Objs |-> [d \in Dirs |-> 0]]
  /\ last = [o \in Objs |-> "zero"]
  /\ used = {}
  /\ pc = "idle" /\ conn = NoConn /\ dir = "client" /\ state = NoObj /\ left = 0
  /\ gc = "off" /\ todo = {} /\ victim = NoConn
  /\ inc = [c \in Conns |-> 0]
  /\ count = [c \in Conns |-> [d \in Dirs |-> 0]]
  /\ events = {} /\ evicted = {}

-----------------------------------------------------------------------------
(* tcpLoop.                                                                *)

(* Mutant of StartGC: the once-function never starts the janitor.          *)
StartNoGC == gc' = gc

(* p.gcOnce.Do(func() { go p.gcLoop() }).                                  *)
StartGC == gc' = IF gc = "off" THEN "idle" ELSE gc

(* Parse is called with a chunk of n whole messages.                       *)
ParseBegin(c, d, n) ==
  /\ pc = "idle" /\ count[c][d] + n <= MaxMsgs /\ used # Objs
  /\ pc' = "stateFor" /\ conn' = c /\ dir' = d /\ left' = n
  /\ StartGC
  /\ UNCHANGED <<connStates, seq, last, used, state, todo, victim, histVars>>

(* stateFor: Load finds an entry.                                          *)
StateFound ==
  /\ pc = "stateFor" /\ connStates[conn] # NoObj
  /\ state' = connStates[conn]
  /\ pc' = "stamp"
  /\ UNCHANGED <<connStates, seq, last, used, conn, dir, left, gcVars, histVars>>

(* stateFor: no entry, LoadOrStore of a new one (no other goroutine stores *)
(* under this ConnID).                                                     *)
StateFresh ==
  /\ pc = "stateFor" /\ connStates[conn] = NoObj
  /\ LET o == CHOOSE o \in Objs : o \notin used IN   \* which one does not matter
       /\ state' = o
       /\ used' = used \cup {o}
       /\ connStates' = [connStates EXCEPT ![conn] = o]
  /\ pc' = "stamp"
  /\ UNCHANGED <<seq, last, conn, dir, left, gcVars, histVars>>

(* state.lastActivity.Store(time.Now().UnixNano()).                        *)
Stamp ==
  /\ pc = "stamp"
  /\ last' = [last EXCEPT ![state] = "recent"]
  /\ pc' = "read"
  /\ UNCHANGED <<connStates, seq, used, conn, dir, state, left, gcVars, histVars>>

(* Mutant of MoreToRead: the end of the buffer goes unnoticed.             *)
AlwaysMore == TRUE

(* The reader holds another whole message (no io.EOF yet).                 *)
MoreToRead == left > 0

(* readRequest / readResponse of one message: UID from Add(1) - 1.         *)
ReadMessage ==
  /\ pc = "read" /\ MoreToRead
  /\ seq' = [seq EXCEPT ![state][dir] = @ + 1]
  /\ events' = events \cup {[conn |-> conn, inc |-> inc[conn], dir |-> dir,
                             seq |-> seq[state][dir], n |-> count[conn][dir]]}
  /\ count' = [count EXCEPT ![conn][dir] = @ + 1]
  /\ left' = left - 1
  /\ UNCHANGED <<connStates, last, used, pc, conn, dir, state, gcVars, inc, evicted>>

(* The reader is exhausted: Parse returns.                                 *)
ParseEnd ==
  /\ pc = "read" /\ ~MoreToRead
  /\ pc' = "idle" /\ conn' = NoConn /\ state' = NoObj
  /\ UNCHANGED <<connStates, seq, last, used, dir, left, gcVars, histVars>>

(* Mutant of Forgotten: OnConnClose leaves the entry.                      *)
KeepState(c) == connStates

(* connStates with the entry of c deleted.                                 *)
Forgotten(c) == [connStates EXCEPT ![c] = NoObj]

(* OnConnClose, for the close marker of the current incarnation.           *)
OnConnClose(c) ==
  /\ pc = "idle" /\ inc[c] < MaxInc
  /\ connStates' = Forgotten(c)
  /\ inc' = [inc EXCEPT ![c] = @ + 1]
  /\ count' = [count EXCEPT ![c] = [d \in Dirs |-> 0]]
  /\ UNCHANGED <<seq, last, used, parseVars, gcVars, events, evicted>>

-----------------------------------------------------------------------------
(* gcLoop.                                                                 *)

(* The ticker fires: cutoff = now - connStateTTL, and Range begins.        *)
GcTick ==
  /\ gc = "idle"
  /\ gc' = "sweep" /\ todo' = Conns
  /\ UNCHANGED <<connStates, seq, last, used, parseVars, victim, histVars>>

(* Range visits a key: lastActivity.Load() < cutoff decides.               *)
GcVisit(c) ==
  /\ gc = "sweep" /\ victim = NoConn /\ c \in todo
  /\ todo' = todo \ {c}
  /\ victim' = IF connStates[c] # NoObj /\ last[connStates[c]] # "recent" THEN c ELSE NoConn
  /\ UNCHANGED <<connStates, seq, last, used, parseVars, gc, histVars>>

(* connStates.Delete(k), whatever is stored under k by now.                *)
GcDelete ==
  /\ victim # NoConn
  /\ connStates' = [connStates EXCEPT ![victim] = NoObj]
  /\ evicted' = evicted \cup {<<victim, inc[victim]>>}
  /\ victim' = NoConn
  /\ UNCHANGED <<seq, last, used, parseVars, gc, todo, inc, count, events>>

(* Range is over.                                                          *)
GcDone ==
  /\ gc = "sweep" /\ todo = {} /\ victim = NoConn
  /\ gc' = "idle"
  /\ UNCHANGED <<connStates, seq, last, used, parseVars, todo, victim, histVars>>

(* connStateTTL passes without traffic; a sweep and a Parse take no time   *)
(* on that scale.                                                          *)
Age ==
  /\ pc = "idle" /\ gc # "sweep" /\ \E o \in Objs : last[o] = "recent"
  /\ last' = [o \in Objs |-> IF last[o] = "recent" THEN "old" ELSE last[o]]
  /\ UNCHANGED <<connStates, seq, used, parseVars, gcVars, histVars>>

TcpLoop == StateFound \/ StateFresh \/ Stamp \/ ReadMessage \/ ParseEnd

GcLoop == GcTick \/ (\E c \in Conns : GcVisit(c)) \/ GcDelete \/ GcDone

Next ==
  \/ \E c \in Conns, d \in Dirs, n \in 1..MaxChunk : ParseBegin(c, d, n)
  \/ TcpLoop
  \/ \E c \in Conns : OnConnClose(c)
  \/ GcLoop
  \/ Age

Spec == Init /\ [][Next]_vars

(* A Parse under way ends, the ticker keeps firing, and time passes between *)
(* sweeps (strong fairness: Age is off for the instant a sweep lasts).     *)
FairSpec == Spec /\ WF_vars(TcpLoop) /\ WF_vars(GcLoop) /\ SF_vars(Age)

-----------------------------------------------------------------------------
(* parser.go:45-46: the counters "stay aligned": message n of a direction, *)
(* counted from 0, gets sequence number n.                                 *)
NumberingExact == \A e \in events : e.seq = e.n

(* The numbering of an incarnation goes wrong only if the janitor deletes  *)
(* its entry: a 4-tuple used again after its close marker never inherits   *)
(* counters (the purpose of OnConnClose).                                  *)
ExactUnlessEvicted ==
  \A e \in events : e.seq = e.n \/ <<e.conn, e.inc>> \in evicted

(* stream.go:119-120: state a close marker did not release is released by  *)
(* the TTL: every entry is eventually removed.                             *)
NoLeak == \A c \in Conns : (connStates[c] # NoObj) ~> (connStates[c] = NoObj)
=============================================================================
