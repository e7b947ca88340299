----------------------------- MODULE UserReader -----------------------------
(***************************************************************************)
(* The packet path of the OVS build: a datapath thread per ring creates    *)
(* the ring by name (create_ringbuffer_shm) and writes tuples; user_reader *)
(* connects to every ring (connect_ringbuffer_shm), polls them and feeds   *)
(* its sketch until a TERM tuple.  A ring is a pair of queues, written and *)
(* published, as in BoundedFifo; ShmRing shows how the indices provide     *)
(* them.  The threads that write are outside the repository (Crash, Close  *)
(* and when they write); what they call is not.                            *)
(***************************************************************************)
EXTENDS Integers, Sequences

CONSTANTS
  NumRings,       \* MAX_RINGBUFFER_NUM
  Batch,          \* RB_BATCH
  Cap,            \* slots of a ring that can be in use: RB_SIZE - 1
  Senders,        \* the rings whose thread may send a TERM
  MaxCreations,   \* bound of the model: how often each ring is created
  MaxRate         \* bound of the model: packets between two alarms

Rings  == 0 .. NumRings - 1
Tuples == {"NORMAL", "TERM"}

ASSUME ReaderAssumption ==
  /\ {NumRings, Batch, MaxRate} \subseteq Nat \ {0}
  /\ Senders \subseteq Rings /\ MaxCreations \in [Rings -> Nat \ {0}]
  /\ Cap \in Nat /\ 2 * Batch <= Cap + 1

Ids(r) == 1 .. MaxCreations[r]

(* A ring in memory: tuples written and not published, published and not   *)
(* read, slots read and not published; the semaphore.                      *)
Blank == [pend |-> <<>>, pub |-> <<>>, freed |-> 0, posted |-> FALSE]

VARIABLES
  obj,            \* obj[r][n]: the shared memory of the n-th creation of ring r
  name,           \* name[r]: the creation that the name of r refers to, or 0
  made,           \* made[r]: creations so far
  creator,        \* where the creator of r is in create_ringbuffer_shm
  conn,           \* conn[r]: the creation user_reader has mapped, or 0
  pc, idx, t,     \* user_reader: place in the loop, idx, flag of the tuple t
  counter,        \* packets received since the last report
  fed             \* ghost: packets fed to the sketch since the last report

creatorVars == <<name, made, creator>>
readerVars  == <<conn, pc, idx, t, counter, fed>>
pathVars == <<obj, creatorVars, readerVars>>

ReaderInit ==
  /\ obj = [r \in Rings |-> [n \in Ids(r) |-> Blank]]
  /\ name = [r \in Rings |-> 0] /\ made = [r \in Rings |-> 0]
  /\ creator = [r \in Rings |-> "down"]
  /\ conn = [r \in Rings |-> 0]
  /\ pc = "connect" /\ idx = 0
  /\ t \in Tuples               \* never initialised (65, 102)
  /\ counter = 0 /\ fed = 0

----------------------------------------------------------------------------
(* create_ringbuffer_shm, and the writer *)

(* Variant: an existing object is opened again. *)
UnlinkReuses(r) ==
  /\ creator[r] = "down" /\ made[r] < MaxCreations[r]
  /\ creator' = [creator EXCEPT ![r] = IF name[r] # 0 THEN "opened" ELSE "unlinked"]
  /\ UNCHANGED <<obj, name, made, readerVars>>

Unlink(r) ==                    \* memory that the reader does not map is gone
  /\ creator[r] = "down" /\ made[r] < MaxCreations[r]
  /\ creator' = [creator EXCEPT ![r] = "unlinked"]
  /\ name' = [name EXCEPT ![r] = 0]
  /\ obj' = [obj EXCEPT ![r] = [n \in Ids(r) |-> IF n = conn[r] THEN @[n] ELSE Blank]]
  /\ UNCHANGED <<made, readerVars>>

Open(r) ==                      \* shm_open with O_EXCL, ftruncate: all zero
  /\ creator[r] = "unlinked" /\ name[r] = 0
  /\ creator' = [creator EXCEPT ![r] = "opened"]
  /\ made' = [made EXCEPT ![r] = @ + 1]
  /\ name' = [name EXCEPT ![r] = made'[r]]
  /\ UNCHANGED <<obj, readerVars>>

CreateFails(r) ==               \* 45-67: no memory or no semaphore: unlink, exit
  /\ creator[r] \in {"unlinked", "opened"}
  /\ creator' = [creator EXCEPT ![r] = "down"]
  /\ name' = [name EXCEPT ![r] = 0]
  /\ UNCHANGED <<obj, made, readerVars>>

Zero(r) ==                      \* sem_init, the fields of RBMeta, memset
  /\ creator[r] = "opened"
  /\ creator' = [creator EXCEPT ![r] = "zeroed"]
  /\ obj' = [obj EXCEPT ![r][made[r]] = Blank]
  /\ UNCHANGED <<name, made, readerVars>>

Post(r) ==
  /\ creator[r] = "zeroed"
  /\ creator' = [creator EXCEPT ![r] = "up"]
  /\ obj' = [obj EXCEPT ![r][made[r]].posted = TRUE]
  /\ UNCHANGED <<name, made, readerVars>>

(* write_ringbuffer: refused when full; a whole batch is published.        *)
WriteTuple(r) ==
  /\ creator[r] = "up"
  /\ LET o == obj[r][made[r]]
     IN  /\ Len(o.pend) + Len(o.pub) + o.freed < Cap
         /\ \E x \in IF r \in Senders THEN Tuples ELSE {"NORMAL"} :
              LET p == Append(o.pend, x)
              IN  obj' = [obj EXCEPT ![r][made[r]] =
                            IF Len(p) < Batch THEN [o EXCEPT !.pend = p]
                            ELSE [o EXCEPT !.pend = <<>>, !.pub = @ \o p]]
  /\ UNCHANGED <<creatorVars, readerVars>>

Crash(r) ==                     \* the datapath dies; name and memory remain
  /\ creator[r] # "down"
  /\ creator' = [creator EXCEPT ![r] = "down"]
  /\ UNCHANGED <<obj, name, made, readerVars>>

Close(r) ==                     \* close_ringbuffer_shm
  /\ creator[r] = "up"
  /\ creator' = [creator EXCEPT ![r] = "down"]
  /\ name' = [name EXCEPT ![r] = 0]
  /\ UNCHANGED <<obj, made, readerVars>>

Datapath(r) == \/ Unlink(r) \/ Open(r) \/ CreateFails(r) \/ Zero(r) \/ Post(r)
               \/ WriteTuple(r) \/ Crash(r) \/ Close(r)

----------------------------------------------------------------------------
(* user_reader *)

(* The rings are connected in order. *)
Connecting(r) == conn[r] = 0 /\ \A q \in Rings : q < r => conn[q] # 0

(* Variant: the connector waits for the semaphore. *)
ConnectPosted(r) ==
  /\ pc = "connect" /\ Connecting(r)
  /\ name[r] # 0 /\ obj[r][name[r]].posted
  /\ conn' = [conn EXCEPT ![r] = name[r]]
  /\ pc' = IF r = NumRings - 1 THEN "test" ELSE "connect"
  /\ UNCHANGED <<obj, creatorVars, idx, t, counter, fed>>

(* connect_ringbuffer_shm spins until the name exists and returns without  *)
(* waiting for the semaphore (128).                                        *)
Connect(r) ==
  /\ pc = "connect" /\ Connecting(r)
  /\ name[r] # 0
  /\ conn' = [conn EXCEPT ![r] = name[r]]
  /\ pc' = IF r = NumRings - 1 THEN "test" ELSE "connect"
  /\ UNCHANGED <<obj, creatorVars, idx, t, counter, fed>>

ConnectFails(r) ==              \* 111, 118: the memory cannot be sized or mapped
  /\ pc = "connect" /\ Connecting(r)
  /\ name[r] # 0
  /\ pc' = "failed"
  /\ UNCHANGED <<obj, creatorVars, conn, idx, t, counter, fed>>

ConnectExit(r) ==               \* 112, 119: the name goes, whoever made it by now
  /\ pc = "failed" /\ Connecting(r)
  /\ name' = [name EXCEPT ![r] = 0]
  /\ pc' = "done"
  /\ UNCHANGED <<obj, made, creator, conn, idx, t, counter, fed>>

Pub(r) == IF conn[r] = 0 THEN <<>> ELSE obj[r][conn[r]].pub

Test ==
  /\ pc = "test"
  /\ pc' = IF t = "TERM" THEN "done" ELSE "poll"
  /\ UNCHANGED <<obj, creatorVars, conn, idx, t, counter, fed>>

(* Variant: an empty ring is polled again. *)
SkipStays == /\ pc = "poll" /\ Pub(idx) = <<>>
             /\ UNCHANGED pathVars

Skip ==
  /\ pc = "poll" /\ Pub(idx) = <<>>
  /\ idx' = (idx + 1) % NumRings
  /\ UNCHANGED <<obj, creatorVars, conn, pc, t, counter, fed>>

Take ==                         \* read_ringbuffer; idx stays at this ring
  /\ pc = "poll" /\ Pub(idx) # <<>>
  /\ counter < MaxRate
  /\ t' = Head(Pub(idx))
  /\ obj' = [obj EXCEPT ![idx][conn[idx]] =
               [@ EXCEPT !.pub = Tail(@), !.freed = (@ + 1) % Batch]]
  /\ pc' = "count"
  /\ UNCHANGED <<creatorVars, conn, idx, counter, fed>>

Count ==
  /\ pc = "count"
  /\ counter' = counter + 1
  /\ pc' = "feed"
  /\ UNCHANGED <<obj, creatorVars, conn, idx, t, fed>>

Feed ==                         \* coin_sketch_update, TERM tuples included
  /\ pc = "feed"
  /\ fed' = fed + 1
  /\ pc' = "test"
  /\ UNCHANGED <<obj, creatorVars, conn, idx, t, counter>>

(* Variant: the counter is printed and not cleared. *)
AlarmKeeps ==
  /\ pc \notin {"connect", "failed", "done"}
  /\ fed' = 0 /\ counter' = counter
  /\ UNCHANGED <<obj, creatorVars, conn, pc, idx, t>>

Alarm ==                        \* handler: print and clear, between any two steps
  /\ pc \notin {"connect", "failed", "done"}
  /\ counter' = 0 /\ fed' = 0
  /\ UNCHANGED <<obj, creatorVars, conn, pc, idx, t>>

Loop == Test \/ Skip \/ Take \/ Count \/ Feed

Reader == (\E r \in Rings : Connect(r) \/ ConnectExit(r)) \/ Loop

ReaderNext == \/ \E r \in Rings : Datapath(r) \/ ConnectFails(r)
              \/ Reader
              \/ Alarm

(* user_reader never blocks, and its timer fires; nothing is assumed of    *)
(* the datapath.                                                           *)
ReaderSpec == ReaderInit /\ [][ReaderNext]_pathVars /\ WF_pathVars(Reader) /\ WF_pathVars(Alarm)
----------------------------------------------------------------------------
(* Properties *)

ReaderTypeOK ==
  /\ DOMAIN obj = Rings
  /\ \A r \in Rings :
       /\ obj[r] \in [Ids(r) -> [pend : Seq(Tuples), pub : Seq(Tuples),
                                 freed : 0 .. Batch - 1, posted : BOOLEAN]]
       /\ {name[r], made[r], conn[r]} \subseteq {0} \cup Ids(r)
  /\ creator \in [Rings -> {"down", "unlinked", "opened", "zeroed", "up"}]
  /\ pc \in {"connect", "failed", "test", "poll", "count", "feed", "done"}
  /\ idx \in Rings /\ t \in Tuples
  /\ counter \in Nat /\ fed \in Nat

(* The initialisation of a ring (62-78) never discards a tuple or disturbs *)
(* a reader, although the reader may have connected before it and after    *)
(* the ring was made anew: until then the shared memory is blank.          *)
ZeroDiscardsNothing ==
  \A r \in Rings : creator[r] \in {"opened", "zeroed"} => obj[r][made[r]] = Blank

(* "wait for signal to init the ring buffer" (130): a connected ring has   *)
(* been initialised by its creator.                                        *)
ConnectWaits == \A r \in Rings : conn[r] # 0 => obj[r][conn[r]].posted

(* A report is at most one packet off what the sketch received since the   *)
(* last one, wherever the signals (57-61) fall, and errors do not add up.  *)
ReportOffByOne == counter - fed \in -1 .. 1

(* The reader gets past the set-up once every ring has a name for good.    *)
ConnectsWhenAllExist ==
  (\A r \in Rings : <>[](name[r] # 0)) => <>(pc # "connect")

(* A published tuple reaches the reader if the other rings fall quiet, or  *)
(* the reader stops first.  (A ring that is never found empty keeps the    *)
(* reader: idx moves on only from an empty ring, 106-108.)                 *)
ServedWhenOthersQuiet ==
  \A r \in Rings :
    <>[](\A q \in Rings \ {r} : Pub(q) = <<>>)
      => (pc # "connect" /\ Pub(r) # <<>> ~> pc = "done" \/ (pc = "count" /\ idx = r))
=============================================================================
