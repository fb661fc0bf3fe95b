----------------------------- MODULE SplitProofs ------------------------------
(***************************************************************************)
(* A split connection, proved for any number of writing tasks, any peer    *)
(* and any payloads, however calls fail, wait for the lock and are         *)
(* dropped: what is_closed() tells, that nothing follows a Close, that a   *)
(* Close is answered, and what a SendError may hide.                       *)
(***************************************************************************)
EXTENDS Split, HalvesProofs

\* What waits and what is written: the holder of the lock is one task, and
\* what it writes is what it asked for.
Shape ==
  /\ TypeOK
  /\ wire \in Seq(Entry) /\ lost \in BOOLEAN /\ held \in Result
  /\ holder \in SUBSET Tasks /\ out \in SUBSET Frame
  /\ \A s, t \in holder : s = t
  /\ \A t \in holder, f \in out : \E g \in asked[t] : g.opcode = f.opcode

\* The flag and the wire.
Wired ==
  /\ \A f \in out : closed <=> f.opcode = "Close"
  /\ ~closed \/ out # {} => NoClose
  /\ closed /\ out = {} /\ ~lost => WholeClose
  /\ \A i, j \in DOMAIN wire : i < j => wire[i].frame.opcode # "Close"

\* What read_frame holds back while send_fn runs is nothing, or a Close or the
\* refusal of one, and then it is a Close that it sends.
HeldBehind ==
  held # OkNone => /\ \A g \in asked[Reader] : g.opcode = "Close"
                   /\ \A f \in held.frame : f.opcode = "Close"

Answered ==
  /\ \/ last = Err("InvalidCloseCode")
     \/ \E f \in last.frame : f.opcode = "Close"
  /\ cfg.autoClose /\ ~lost
  => WholeClose

\* The inductive invariant.
Inv == Shape /\ Wired /\ HeldBehind /\ Answered

LEMMA ReaderIsTask == Reader \in Tasks /\ Reader \notin Writers
  BY SplitAssumption DEF SplitAssumption, Tasks

LEMMA OkNoneTyped == OkNone \in Result /\ OkNone.frame = {} /\ OkNone.error = {}
  BY ResultTyped DEF OkNone

-----------------------------------------------------------------------------
(* What the parts of a step do to the shape *)

LEMMA SettleShape ==
  ASSUME NEW res \in Result, Settle(res)
  PROVE  /\ pc' \in {"idle", "read"} /\ held' = OkNone
         /\ \/ res = OkNone /\ last' = last
            \/ last' = res
  BY DEF Settle, Return

\* The call of a task ends: its request, the lock and the frame are gone.
LEMMA FinishShape ==
  ASSUME Shape, NEW t \in Tasks, NEW res, holder = {} \/ t \in holder,
         Finish(t, res),
         cfg' = cfg, masks' = masks, closed' \in BOOLEAN,
         wire' \in Seq(Entry), lost' \in BOOLEAN
  PROVE  Shape'
<1>1. /\ asked' = [asked EXCEPT ![t] = {}] /\ holder' = {} /\ out' = {}
  BY DEF Finish
<1>2. /\ asked' \in [Tasks -> SUBSET Frame] /\ asked'[t] = {}
      /\ \A s \in Tasks \ {t} : asked'[s] = asked[s]
  BY <1>1 DEF Shape, TypeOK
<1>3. CASE t = Reader
  <2>1. pc' \in {"idle", "read"} /\ held' = OkNone
    <3>1. CASE res.error = {}
      BY <1>3, <3>1, SettleShape DEF Finish, Shape
    <3>2. CASE res.error # {}
      BY <1>3, <3>2 DEF Finish, Return
    <3> QED
      BY <3>1, <3>2
  <2> QED
    BY <1>1, <1>2, <1>3, <2>1, OkNoneTyped DEF Shape, TypeOK
<1>4. CASE t # Reader
  <2>1. pc' = pc /\ held' = held /\ asked'[Reader] = asked[Reader]
    BY <1>2, <1>4, ReaderIsTask DEF Finish
  <2> QED
    BY <1>1, <1>2, <1>4, <2>1 DEF Shape, TypeOK
<1> QED
  BY <1>3, <1>4

\* The entry that the end of a write adds.
LEMMA PutShape ==
  ASSUME Shape, NEW t \in Tasks, NEW w \in BOOLEAN, Put(t, w)
  PROVE  \E x \in Entry : /\ wire' = Append(wire, x) /\ wire' \in Seq(Entry)
                          /\ x.frame \in out /\ x.whole = w
<1>1. PICK f \in out : wire' = Append(wire, [frame |-> f, whole |-> w, by |-> t])
  BY DEF Put
<1>2. [frame |-> f, whole |-> w, by |-> t] \in Entry
  BY DEF Entry, Shape
<1> QED
  BY <1>1, <1>2 DEF Shape

LEMMA HearShape ==
  ASSUME Shape, NEW f \in Frame, HearFrame(f) PROVE Shape'
<1>1. pc = "read" /\ UNCHANGED <<cfg, masks, closed, holder, out, wire, lost>>
  BY DEF HearFrame
<1>2. PICK o \in ReadFrameInner(cfg, f) :
        IF o.send = {} THEN Settle(o.res) /\ UNCHANGED asked
        ELSE /\ pc' = "send" /\ held' = o.res
             /\ asked' = [asked EXCEPT ![Reader] = o.send]
             /\ UNCHANGED last
  BY DEF HearFrame
<1>3. o.res \in Result /\ o.send \in SUBSET Frame
  BY ReadFrameInnerMeaning DEF Shape, TypeOK
<1>4. asked[Reader] = {} /\ Reader \notin holder
  BY <1>1, ReaderIsTask DEF Shape, TypeOK
<1>5. CASE o.send = {}
  <2>1. pc' \in {"idle", "read"} /\ held' = OkNone /\ asked' = asked
    BY <1>2, <1>3, <1>5, SettleShape
  <2> QED
    BY <1>1, <1>4, <2>1, OkNoneTyped DEF Shape, TypeOK
<1>6. CASE o.send # {}
  <2>1. /\ pc' = "send" /\ held' = o.res
        /\ asked' \in [Tasks -> SUBSET Frame]
        /\ asked'[Reader] = o.send
        /\ \A s \in Tasks \ {Reader} : asked'[s] = asked[s]
    BY <1>2, <1>3, <1>6, ReaderIsTask DEF Shape, TypeOK
  <2>2. \A s \in holder : s \in Tasks \ {Reader} /\ asked'[s] = asked[s]
    BY <1>4, <2>1 DEF Shape
  <2> QED
    BY <1>1, <1>3, <1>6, <2>1, <2>2 DEF Shape, TypeOK
<1> QED
  BY <1>5, <1>6

LEMMA CallWriteShape ==
  ASSUME Shape, NEW t \in Writers, NEW f \in Frame, CallWrite(t, f)
  PROVE  Shape'
<1>1. /\ asked[t] = {} /\ asked' = [asked EXCEPT ![t] = {f}]
      /\ UNCHANGED <<cfg, masks, closed, pc, held, holder, out, wire, lost>>
  BY DEF CallWrite
<1>2. t \in Tasks /\ t # Reader /\ t \notin holder
  BY <1>1, ReaderIsTask DEF Tasks, Shape, TypeOK
<1>3. /\ asked' \in [Tasks -> SUBSET Frame]
      /\ \A s \in Tasks \ {t} : asked'[s] = asked[s]
  BY <1>1 DEF Shape, TypeOK
<1>4. asked'[Reader] = asked[Reader]
  BY <1>2, <1>3, ReaderIsTask
<1>5. \A s \in holder : s \in Tasks \ {t} /\ asked'[s] = asked[s]
  BY <1>2, <1>3 DEF Shape
<1> QED
  BY <1>1, <1>3, <1>4, <1>5 DEF Shape, TypeOK

\* What the task that gets the lock finds: the flag, and what it is to send.
LEMMA AcquireCases ==
  ASSUME Shape, NEW t \in Tasks, Acquire(t)
  PROVE  \E f \in asked[t], g \in Frame :
           /\ g.opcode = f.opcode
           /\ IF closed THEN Finish(t, WriteClosed(g)) /\ UNCHANGED closed
              ELSE /\ holder' = {t} /\ out' = {g}
                   /\ closed' = (g.opcode = "Close")
                   /\ UNCHANGED <<pc, held, last, asked>>
<1>1. PICK f \in asked[t] : \E g \in Outgoing([cfg EXCEPT !.autoApplyMask = masks], f) :
        IF closed THEN Finish(t, WriteClosed(g)) /\ UNCHANGED closed
        ELSE /\ holder' = {t} /\ out' = {g}
             /\ closed' = (g.opcode = "Close")
             /\ UNCHANGED <<pc, held, last, asked>>
  BY DEF Acquire
<1>2. f \in Frame
  BY DEF Shape, TypeOK
<1> QED
  BY <1>1, <1>2, OutgoingTyped

LEMMA AcquireShape ==
  ASSUME Shape, NEW t \in Tasks, Acquire(t) PROVE Shape'
<1>1. holder = {} /\ asked[t] # {} /\ UNCHANGED <<cfg, masks, wire, lost>>
  BY DEF Acquire
<1>2. PICK f \in asked[t], g \in Frame :
           /\ g.opcode = f.opcode
           /\ IF closed THEN Finish(t, WriteClosed(g)) /\ UNCHANGED closed
              ELSE /\ holder' = {t} /\ out' = {g}
                   /\ closed' = (g.opcode = "Close")
                   /\ UNCHANGED <<pc, held, last, asked>>
  BY AcquireCases
<1>3. CASE closed
  BY <1>1, <1>2, <1>3, FinishShape DEF Shape, TypeOK
<1>4. CASE ~closed
  BY <1>1, <1>2, <1>4 DEF Shape, TypeOK
<1> QED
  BY <1>3, <1>4

LEMMA DropShape ==
  ASSUME Shape, NEW t \in Tasks, Drop(t) PROVE Shape'
<1>1. /\ asked' = [asked EXCEPT ![t] = {}] /\ lost' = TRUE
      /\ UNCHANGED <<cfg, masks, closed>>
  BY DEF Drop
<1>2. /\ asked' \in [Tasks -> SUBSET Frame] /\ asked'[t] = {}
      /\ \A s \in Tasks \ {t} : asked'[s] = asked[s]
  BY <1>1 DEF Shape, TypeOK
<1>3. /\ t = Reader => pc' = "idle" /\ held' = OkNone
      /\ t # Reader => pc' = pc /\ held' = held /\ asked'[Reader] = asked[Reader]
  BY <1>2, ReaderIsTask DEF Drop, Return
<1>4. /\ pc' \in {"idle", "read", "send"} /\ held' \in Result
      /\ pc' = "send" <=> asked'[Reader] # {}
      /\ pc' # "send" => held' = OkNone
  BY <1>2, <1>3, OkNoneTyped DEF Shape, TypeOK
<1>5. CASE t \in holder
  <2>1. holder' = {} /\ out' = {} /\ wire' \in Seq(Entry)
    BY <1>5, PutShape DEF Drop, Shape
  <2> QED
    BY <1>1, <1>2, <1>4, <2>1 DEF Shape, TypeOK
<1>6. CASE t \notin holder
  <2>1. UNCHANGED <<wire, holder, out>>
    BY <1>6 DEF Drop
  <2>2. \A s \in holder : s \in Tasks \ {t} /\ asked'[s] = asked[s]
    BY <1>2, <1>6 DEF Shape
  <2> QED
    BY <1>1, <1>2, <1>4, <2>1, <2>2 DEF Shape, TypeOK
<1> QED
  BY <1>5, <1>6

\* Reading, and the settings of either half.
Quiet == StartRead \/ ParseFails \/ DropRead \/ SetRead \/ SetWrite

LEMMA QuietShape == ASSUME Shape, Quiet PROVE Shape'
<1>1. CASE StartRead
  BY <1>1, OkNoneTyped DEF StartRead, Shape, TypeOK
<1>2. CASE ParseFails \/ DropRead
  BY <1>2, OkNoneTyped DEF ParseFails, DropRead, Return, Shape, TypeOK
<1>3. CASE SetRead
  <2>1. cfg' \in Config
    <3>1. cfg \in Config
      BY DEF Shape, TypeOK
    <3>2. \A s, b : b \in BOOLEAN => Switch(s, b) \subseteq BOOLEAN
      BY DEF Switch
    <3>3. PICK close \in Switch("autoClose", cfg.autoClose),
               pong  \in Switch("autoPong", cfg.autoPong),
               mask  \in Switch("autoApplyMask", cfg.autoApplyMask) :
            cfg' = [role |-> cfg.role, autoClose |-> close, autoPong |-> pong,
                    autoApplyMask |-> mask]
      BY <1>3 DEF SetRead
    <3>4. close \in BOOLEAN /\ pong \in BOOLEAN /\ mask \in BOOLEAN
      BY <3>1, <3>2 DEF Config
    <3> QED
      BY <3>1, <3>3, <3>4 DEF Config
  <2> QED
    BY <1>3, <2>1 DEF SetRead, Shape, TypeOK
<1>4. CASE SetWrite
  <2>1. masks' \in BOOLEAN
    BY <1>4 DEF SetWrite, Switch, Shape, TypeOK
  <2> QED
    BY <1>4, <2>1 DEF SetWrite, Shape, TypeOK
<1> QED
  BY <1>1, <1>2, <1>3, <1>4 DEF Quiet

-----------------------------------------------------------------------------
(* The wire *)

LEMMA AppendEntry ==
  ASSUME NEW x \in Entry, wire \in Seq(Entry), wire' = Append(wire, x)
  PROVE  /\ NoClose /\ x.frame.opcode # "Close" => NoClose'
         /\ x.whole /\ x.frame.opcode = "Close" => WholeClose'
         /\ WholeClose => WholeClose'
         /\ NoClose => \A i, j \in DOMAIN wire' :
                         i < j => wire'[i].frame.opcode # "Close"
<1>1. /\ Len(wire) \in Nat /\ DOMAIN wire = 1 .. Len(wire)
      /\ DOMAIN wire' = 1 .. Len(wire) + 1
      /\ wire'[Len(wire) + 1] = x
      /\ \A i \in 1 .. Len(wire) : wire'[i] = wire[i]
  OBVIOUS
<1>2. \A i \in DOMAIN wire' : i \in DOMAIN wire \/ i = Len(wire) + 1
  BY <1>1
<1>3. NoClose /\ x.frame.opcode # "Close" => NoClose'
  BY <1>1, <1>2 DEF NoClose
<1>4. /\ x.whole /\ x.frame.opcode = "Close" => WholeClose'
      /\ WholeClose => WholeClose'
  BY <1>1 DEF WholeClose
<1>5. NoClose => \A i, j \in DOMAIN wire' :
                   i < j => wire'[i].frame.opcode # "Close"
  BY <1>1 DEF NoClose
<1> QED
  BY <1>3, <1>4, <1>5

LEMMA WireKept ==
  ASSUME Wired, wire' = wire, closed' = closed, out' = out, lost' = lost
  PROVE  Wired'
  BY DEF Wired, NoClose, WholeClose

LEMMA PutWired ==
  ASSUME Shape, Wired, NEW t \in Tasks, NEW w \in BOOLEAN, Put(t, w),
         closed' = closed, out' = {}, w \/ lost'
  PROVE  Wired' /\ (WholeClose => WholeClose')
<1>1. PICK x \in Entry : /\ wire' = Append(wire, x)
                         /\ x.frame \in out /\ x.whole = w
  BY PutShape
<1>2. NoClose /\ (closed <=> x.frame.opcode = "Close")
  BY <1>1 DEF Wired
<1>3. wire \in Seq(Entry)
  BY DEF Shape
<1>4. /\ ~closed => NoClose'
      /\ closed /\ w => WholeClose'
      /\ WholeClose => WholeClose'
      /\ \A i, j \in DOMAIN wire' : i < j => wire'[i].frame.opcode # "Close"
  BY <1>1, <1>2, <1>3, AppendEntry
<1> QED
  BY <1>4 DEF Wired

\* A write that is given up leaves a part of its frame or nothing.
LEMMA TornWired ==
  ASSUME Shape, Wired, NEW t \in Tasks, Put(t, FALSE) \/ UNCHANGED wire,
         closed' = closed, out' = {}, lost'
  PROVE  Wired' /\ (WholeClose => WholeClose')
<1>1. CASE Put(t, FALSE)
  BY <1>1, PutWired
<1>2. CASE UNCHANGED wire
  BY <1>2 DEF Wired, NoClose, WholeClose
<1> QED
  BY <1>1, <1>2

\* read_frame goes on or returns behind a reply that is done, or was not needed.
LEMMA FinishCall ==
  ASSUME Shape, HeldBehind, Answered, NEW t \in Tasks,
         NEW res \in Result, Finish(t, res), res.frame = {},
         cfg' = cfg, WholeClose => WholeClose', lost' \/ lost' = lost,
         t = Reader /\ res.error = {} /\ held # OkNone /\ ~lost' => WholeClose'
  PROVE  HeldBehind' /\ Answered'
<1>1. CASE t # Reader
  <2>1. /\ held' = held /\ last' = last
        /\ asked'[Reader] = asked[Reader]
    BY <1>1, ReaderIsTask DEF Finish, Shape, TypeOK
  <2> QED
    BY <2>1 DEF HeldBehind, Answered
<1>2. CASE t = Reader /\ res.error = {}
  <2>1. held' = OkNone /\ (last' = last \/ last' = held)
    BY <1>2, SettleShape DEF Finish, Shape
  <2>2. last' = held /\ held = OkNone => Answered'
    BY OkNoneTyped DEF Answered, Err
  <2>3. last' = held /\ held # OkNone => Answered'
    BY <1>2 DEF Answered
  <2>4. last' = last => Answered'
    BY DEF Answered
  <2> QED
    BY <2>1, <2>2, <2>3, <2>4 DEF HeldBehind
<1>3. CASE t = Reader /\ res.error # {}
  <2>1. held' = OkNone /\ last' = Err("SendError")
    BY <1>3 DEF Finish, Return
  <2> QED
    BY <2>1 DEF HeldBehind, Answered, Err
<1> QED
  BY <1>1, <1>2, <1>3

-----------------------------------------------------------------------------
(* One lemma for each step *)

LEMMA HearSafe ==
  ASSUME Inv, NEW f \in Frame, HearFrame(f)
  PROVE  Wired' /\ HeldBehind' /\ Answered'
<1>1. pc = "read" /\ UNCHANGED <<cfg, closed, holder, out, wire, lost>>
  BY DEF HearFrame
<1>2. PICK o \in ReadFrameInner(cfg, f) :
        IF o.send = {} THEN Settle(o.res) /\ UNCHANGED asked
        ELSE /\ pc' = "send" /\ held' = o.res
             /\ asked' = [asked EXCEPT ![Reader] = o.send]
             /\ UNCHANGED last
  BY DEF HearFrame
<1>3. /\ o.res \in Result /\ o.send \in SUBSET Frame
      /\ o.send # {} => /\ \A g \in o.res.frame : g.opcode = "Close"
                        /\ o.res # OkNone => \A g \in o.send : g.opcode = "Close"
      /\ /\ cfg.autoClose
         /\ \/ \E g \in o.res.frame : g.opcode = "Close"
            \/ o.res = Err("InvalidCloseCode")
         => o.send # {}
  BY ReadFrameInnerMeaning DEF Inv, Shape, TypeOK
<1>4. Wired'
  BY <1>1, WireKept DEF Inv
<1>5. CASE o.send = {}
  <2>1. held' = OkNone /\ (last' = last \/ last' = o.res)
    BY <1>2, <1>3, <1>5, SettleShape
  <2>2. Answered'
    BY <1>1, <1>3, <1>5, <2>1 DEF Inv, Answered, WholeClose
  <2> QED
    BY <1>4, <2>1, <2>2 DEF HeldBehind
<1>6. CASE o.send # {}
  <2>1. held' = o.res /\ last' = last /\ asked'[Reader] = o.send
    BY <1>2, <1>6, ReaderIsTask DEF Inv, Shape, TypeOK
  <2>2. Answered'
    BY <1>1, <2>1 DEF Inv, Answered, WholeClose
  <2> QED
    BY <1>3, <1>4, <1>6, <2>1, <2>2 DEF HeldBehind
<1> QED
  BY <1>5, <1>6

LEMMA CallWriteSafe ==
  ASSUME Inv, NEW t \in Writers, NEW f \in Frame, CallWrite(t, f)
  PROVE  Wired' /\ HeldBehind' /\ Answered'
<1>1. UNCHANGED <<cfg, closed, held, out, wire, last, lost>>
  BY DEF CallWrite
<1>2. asked'[Reader] = asked[Reader]
  BY ReaderIsTask DEF CallWrite, Inv, Shape, TypeOK
<1>3. HeldBehind' /\ Answered'
  BY <1>1, <1>2 DEF Inv, HeldBehind, Answered, WholeClose
<1> QED
  BY <1>1, <1>3, WireKept DEF Inv

LEMMA AcquireSafe ==
  ASSUME Inv, NEW t \in Tasks, Acquire(t)
  PROVE  Wired' /\ HeldBehind' /\ Answered'
<1>1. holder = {} /\ out = {} /\ UNCHANGED <<cfg, wire, lost>>
  BY DEF Acquire, Inv, Shape, TypeOK
<1>2. PICK f \in asked[t], g \in Frame :
           /\ g.opcode = f.opcode
           /\ IF closed THEN Finish(t, WriteClosed(g)) /\ UNCHANGED closed
              ELSE /\ holder' = {t} /\ out' = {g}
                   /\ closed' = (g.opcode = "Close")
                   /\ UNCHANGED <<pc, held, last, asked>>
  BY AcquireCases DEF Inv
<1>3. WholeClose => WholeClose'
  BY <1>1 DEF WholeClose
<1>4. CASE closed
  <2>1. Finish(t, WriteClosed(g)) /\ closed' = closed
    BY <1>2, <1>4
  <2>2. WriteClosed(g) \in Result /\ WriteClosed(g).frame = {}
    BY ResultTyped DEF WriteClosed, WebSocketError, OkNone, Err
  <2>3. Wired'
    BY <1>1, <2>1, WireKept DEF Inv, Finish
  <2>4. ~lost' => WholeClose'
    BY <1>1, <1>3, <1>4 DEF Inv, Wired
  <2> QED
    BY <1>1, <1>3, <2>1, <2>2, <2>3, <2>4, FinishCall DEF Inv
<1>5. CASE ~closed
  <2>1. Wired'
    BY <1>1, <1>2, <1>5 DEF Inv, Wired, NoClose
  <2>2. UNCHANGED <<held, last, asked>>
    BY <1>2, <1>5
  <2>3. HeldBehind' /\ Answered'
    BY <1>1, <1>3, <2>2 DEF Inv, HeldBehind, Answered
  <2> QED
    BY <2>1, <2>3
<1> QED
  BY <1>4, <1>5

LEMMA WriteDoneSafe ==
  ASSUME Inv, NEW t \in Tasks, WriteDone(t)
  PROVE  Shape' /\ Wired' /\ HeldBehind' /\ Answered'
<1>1. /\ t \in holder /\ Put(t, TRUE) /\ Finish(t, OkNone)
      /\ UNCHANGED <<cfg, masks, closed, lost>>
  BY DEF WriteDone
<1>2. wire' \in Seq(Entry)
  BY <1>1, PutShape DEF Inv
<1>3. Shape'
  BY <1>1, <1>2, FinishShape DEF Inv, Shape, TypeOK
<1>4. Wired' /\ (WholeClose => WholeClose')
  BY <1>1, PutWired DEF Inv, Finish
<1>5. t = Reader /\ held # OkNone /\ ~lost' => WholeClose'
  <2> SUFFICES ASSUME t = Reader, held # OkNone, ~lost' PROVE WholeClose'
    OBVIOUS
  <2>1. PICK f \in out : TRUE
    BY <1>1 DEF Inv, Shape, TypeOK
  <2>2. f.opcode = "Close"
    BY <1>1, <2>1 DEF Inv, Shape, HeldBehind
  <2>3. closed' /\ out' = {}
    BY <1>1, <2>1, <2>2 DEF Inv, Wired, Finish
  <2> QED
    BY <1>4, <2>3 DEF Wired
<1>6. HeldBehind' /\ Answered'
  BY <1>1, <1>4, <1>5, OkNoneTyped, FinishCall DEF Inv
<1> QED
  BY <1>3, <1>4, <1>6

LEMMA WriteFailsSafe ==
  ASSUME Inv, NEW t \in Tasks, WriteFails(t)
  PROVE  Shape' /\ Wired' /\ HeldBehind' /\ Answered'
<1>1. /\ t \in holder /\ Finish(t, Err("IoError")) /\ lost' = TRUE
      /\ Put(t, FALSE) \/ UNCHANGED wire
      /\ UNCHANGED <<cfg, masks, closed>>
  BY DEF WriteFails
<1>2. wire' \in Seq(Entry)
  BY <1>1, PutShape DEF Inv, Shape
<1>3. Shape'
  BY <1>1, <1>2, FinishShape DEF Inv, Shape, TypeOK
<1>4. Wired' /\ (WholeClose => WholeClose')
  BY <1>1, TornWired DEF Inv, Finish
<1>5. Err("IoError") \in Result /\ Err("IoError").frame = {}
  BY ResultTyped DEF WebSocketError, ParseError, Err
<1>6. HeldBehind' /\ Answered'
  BY <1>1, <1>4, <1>5, FinishCall DEF Inv
<1> QED
  BY <1>3, <1>4, <1>6

LEMMA DropSafe ==
  ASSUME Inv, NEW t \in Tasks, Drop(t)
  PROVE  Wired' /\ HeldBehind' /\ Answered'
<1>1. /\ asked' = [asked EXCEPT ![t] = {}] /\ lost' = TRUE
      /\ UNCHANGED <<cfg, closed>>
  BY DEF Drop
<1>2. t \in holder => Wired'
  BY <1>1, TornWired DEF Drop, Inv
<1>3. t \notin holder => Wired'
  <2>1. t \notin holder => wire' = wire /\ out' = out
    BY DEF Drop
  <2> QED
    BY <1>1, <2>1 DEF Inv, Wired, NoClose
<1>4. Answered'
  BY <1>1 DEF Answered
<1>5. HeldBehind'
  <2>1. CASE t = Reader
    BY <2>1 DEF Drop, Return, HeldBehind
  <2>2. CASE t # Reader
    <3>1. held' = held /\ asked'[Reader] = asked[Reader]
      BY <1>1, <2>2, ReaderIsTask DEF Drop, Inv, Shape, TypeOK
    <3> QED
      BY <3>1 DEF Inv, HeldBehind
  <2> QED
    BY <2>1, <2>2
<1> QED
  BY <1>2, <1>3, <1>4, <1>5

LEMMA QuietSafe ==
  ASSUME Inv, Quiet PROVE Wired' /\ HeldBehind' /\ Answered'
<1>1. UNCHANGED <<closed, asked, out, wire, lost>>
  BY DEF Quiet, StartRead, ParseFails, DropRead, SetRead, SetWrite, Return
<1>2. held' = held \/ held' = OkNone
  BY DEF Quiet, StartRead, ParseFails, DropRead, SetRead, SetWrite, Return
<1>3. \/ last' = last /\ cfg' = cfg
      \/ last' = OkNone \/ last' = Err("UnexpectedEOF")
  BY DEF Quiet, StartRead, ParseFails, DropRead, SetRead, SetWrite, Return
<1>4. Wired'
  BY <1>1, WireKept DEF Inv
<1>5. HeldBehind'
  BY <1>1, <1>2 DEF Inv, HeldBehind
<1>6. Answered'
  BY <1>1, <1>3 DEF Inv, Answered, WholeClose, OkNone, Err
<1> QED
  BY <1>4, <1>5, <1>6

-----------------------------------------------------------------------------
(* The invariant *)

LEMMA InitInv == Init => Inv
<1> SUFFICES ASSUME Init PROVE Inv
  OBVIOUS
<1>1. cfg \in Config
  <2>1. PICK r \in Role : cfg = AfterHandshake(r)
    BY DEF Init
  <2> QED
    BY <2>1 DEF AfterHandshake, Config
<1>2. Shape
  <2>1. /\ masks = TRUE /\ closed = FALSE /\ pc = "idle" /\ held = OkNone
        /\ asked = [t \in Tasks |-> {}] /\ holder = {} /\ out = {}
        /\ wire = << >> /\ lost = FALSE
    BY DEF Init
  <2>2. asked \in [Tasks -> SUBSET Frame] /\ asked[Reader] = {}
    BY <2>1, ReaderIsTask
  <2>3. TypeOK
    BY <1>1, <2>1, <2>2 DEF TypeOK
  <2>4. wire \in Seq(Entry)
    BY <2>1
  <2>5. holder \in SUBSET Tasks /\ out \in SUBSET Frame
    BY <2>1
  <2> QED
    BY <2>1, <2>3, <2>4, <2>5, OkNoneTyped DEF Shape
<1>3. Wired /\ HeldBehind /\ Answered
  BY DEF Init, Wired, NoClose, HeldBehind, Answered, OkNone, Err
<1> QED
  BY <1>2, <1>3 DEF Inv

LEMMA HeardIsFrame ==
  ASSUME Inv, Hear PROVE \E f \in Frame : HearFrame(f)
<1>1. PeerFrames[cfg.role] \subseteq Frame
  BY SplitAssumption DEF SplitAssumption, Inv, Shape, TypeOK, Config
<1> QED
  BY <1>1 DEF Hear

LEMMA NextInv == ASSUME Inv, Next PROVE Inv'
<1>1. CASE Hear
  BY <1>1, HeardIsFrame, HearShape, HearSafe DEF Inv
<1>2. ASSUME NEW t \in Writers, NEW f \in AppFrames, CallWrite(t, f)
      PROVE  Inv'
  <2>1. f \in Frame
    BY SplitAssumption DEF SplitAssumption
  <2> QED
    BY <1>2, <2>1, CallWriteShape, CallWriteSafe DEF Inv
<1>3. ASSUME NEW t \in Tasks, Acquire(t) PROVE Inv'
  BY <1>3, AcquireShape, AcquireSafe DEF Inv
<1>4. ASSUME NEW t \in Tasks, WriteDone(t) PROVE Inv'
  BY <1>4, WriteDoneSafe DEF Inv
<1>5. ASSUME NEW t \in Tasks, WriteFails(t) PROVE Inv'
  BY <1>5, WriteFailsSafe DEF Inv
<1>6. ASSUME NEW t \in Tasks, Drop(t) PROVE Inv'
  BY <1>6, DropShape, DropSafe DEF Inv
<1>7. CASE Quiet
  BY <1>7, QuietShape, QuietSafe DEF Inv
<1> QED
  BY <1>1, <1>2, <1>3, <1>4, <1>5, <1>6, <1>7 DEF Next, Quiet

LEMMA Inductive == Inv /\ [Next]_vars => Inv'
<1> SUFFICES ASSUME Inv, [Next]_vars PROVE Inv'
  OBVIOUS
<1>1. CASE Next
  BY <1>1, NextInv
<1>2. CASE UNCHANGED vars
  BY <1>2 DEF vars, Inv, Shape, TypeOK, Wired, HeldBehind, Answered,
              NoClose, WholeClose
<1> QED
  BY <1>1, <1>2

LEMMA Always == Spec => []Inv
  BY InitInv, Inductive, PTL DEF Spec

\* The lock is held by a task that asked for it, exactly while it writes, and
\* read_frame waits for send_fn exactly while its reply is asked for.
THEOREM SplitTyped == Spec => []TypeOK
<1>1. Inv => TypeOK
  BY DEF Inv, Shape
<1> QED
  BY <1>1, Always, PTL

\* is_closed(), seen by whoever gets the lock, tells what is on the wire.
THEOREM SplitFlag == Spec => []FlagMatchesWire
<1>1. Inv => FlagMatchesWire
  BY DEF Inv, Wired, FlagMatchesWire
<1> QED
  BY <1>1, Always, PTL

\* Whichever tasks say Close, and whatever waits for the lock behind them,
\* nothing is written behind a Close or its remains.
THEOREM SplitClose == Spec => []NothingFollowsClose
<1>1. Inv => NothingFollowsClose
  BY DEF Inv, Wired, NothingFollowsClose
<1> QED
  BY <1>1, Always, PTL

\* read_frame reports the peer's Close under auto_close only when a Close of
\* this end is out, the reader's own or that of any other task.
THEOREM SplitAnswer == Spec => []CloseIsAnswered
<1>1. Inv => CloseIsAnswered
  BY DEF Inv, Answered, CloseIsAnswered
<1> QED
  BY <1>1, Always, PTL

-----------------------------------------------------------------------------
(* What a SendError hides *)

\* A SendError, of a write that was not lost, comes from a write half that is
\* closed, and the frame that read_frame held behind it was a ping.
THEOREM SplitRefusal == Spec => OnlyPongsAreRefused
<1>1. Inv /\ [Next]_vars =>
        [last' # last /\ last' = Err("SendError") /\ ~lost'
         => closed /\ held = OkNone]_vars
  <2> SUFFICES ASSUME Inv, Next,
                      last' # last, last' = Err("SendError"), ~lost'
               PROVE  closed /\ held = OkNone
    BY DEF vars
  <2>1. \A res \in Result : res # Err("SendError")
    BY DEF Result, Err, WebSocketError, ParseError
  <2>2. held \in Result /\ OkNone # Err("SendError")
        /\ Err("UnexpectedEOF") # Err("SendError")
    BY <2>1, OkNoneTyped DEF Inv, Shape, Err
  <2>3. ASSUME NEW f \in Frame, HearFrame(f) PROVE FALSE
    <3>1. PICK o \in ReadFrameInner(cfg, f) :
            o.send = {} /\ Settle(o.res)
      BY <2>3 DEF HearFrame
    <3>2. o.res \in Result
      BY ReadFrameInnerMeaning DEF Inv, Shape, TypeOK
    <3> QED
      BY <2>1, <3>1, <3>2, SettleShape
  <2>4. ASSUME NEW t \in Tasks, Acquire(t) PROVE closed /\ held = OkNone
    <3>1. PICK f \in asked[t], g \in Frame :
            /\ g.opcode = f.opcode
            /\ closed /\ Finish(t, WriteClosed(g))
      BY <2>4, AcquireCases DEF Inv
    <3>2. t = Reader /\ WriteClosed(g).error # {}
      BY <2>1, <2>2, <3>1, SettleShape DEF Finish
    <3>3. f.opcode # "Close"
      BY <3>1, <3>2, OkNoneTyped DEF WriteClosed
    <3> QED
      BY <3>1, <3>2, <3>3 DEF Inv, HeldBehind
  <2>5. ASSUME NEW t \in Tasks, WriteDone(t) PROVE FALSE
    BY <2>1, <2>2, <2>5, OkNoneTyped, SettleShape DEF WriteDone, Finish
  <2>6. ASSUME NEW t \in Tasks, WriteFails(t) \/ Drop(t) PROVE FALSE
    BY <2>6 DEF WriteFails, Drop
  <2>7. ASSUME NEW t \in Writers, NEW f \in AppFrames, CallWrite(t, f)
        PROVE FALSE
    BY <2>7 DEF CallWrite
  <2>8. CASE Quiet
    BY <2>2, <2>8
       DEF Quiet, StartRead, ParseFails, DropRead, SetRead, SetWrite, Return
  <2> QED
    BY <2>3, <2>4, <2>5, <2>6, <2>7, <2>8, HeardIsFrame DEF Next, Quiet
<1> QED
  BY <1>1, Always, PTL DEF Spec, OnlyPongsAreRefused

-----------------------------------------------------------------------------
(* The wire is a transcript *)

\* The step of Transcript that a step of the halves makes: what is written is
\* said, a Close that is given up ends the log, and all else is silent.
LEMMA SaysOrNot ==
  ASSUME Inv,
         \/ wire' = wire /\ (closed' /\ out' = {} <=> closed /\ out = {})
         \/ /\ closed' = closed /\ out # {} /\ out' = {}
            /\ \/ wire' = wire
               \/ \E x \in Entry : wire' = Append(wire, x) /\ x.frame \in out
  PROVE  [T!Next]_<<Said, Over>>
<1> DEFINE Closing == {x \in Entry : x.frame.opcode = "Close"}
<1>1. /\ Said = [s \in {Reader} |-> wire] /\ Said' = [s \in {Reader} |-> wire']
      /\ Over = [s \in {Reader} |-> closed /\ out = {}]
      /\ Over' = [s \in {Reader} |-> closed' /\ out' = {}]
  BY DEF Said, Over
<1>2. CASE wire' = wire /\ (closed' /\ out' = {} <=> closed /\ out = {})
  <2>1. Over' = Over
    BY <1>1, <1>2
  <2> QED
    BY <1>1, <1>2, <2>1
<1>3. CASE closed' = closed /\ out # {} /\ out' = {} /\ wire' = wire
  <2>1. CASE closed
    <3>1. Over' = [Over EXCEPT ![Reader] = TRUE] /\ ~Over[Reader]
      BY <1>1, <1>3, <2>1
    <3> QED
      BY <1>1, <1>3, <3>1 DEF T!FallSilent, T!Next
  <2>2. CASE ~closed
    <3>1. Over' = Over
      BY <1>1, <1>3, <2>2
    <3> QED
      BY <1>1, <1>3, <3>1
  <2> QED
    BY <2>1, <2>2
<1>4. ASSUME closed' = closed, out # {}, out' = {},
             NEW x \in Entry, wire' = Append(wire, x), x.frame \in out
      PROVE  T!Say(Reader)
  <2>1. closed <=> x \in Closing
    BY <1>4 DEF Inv, Wired
  <2>2. wire \in Seq(Entry)
    BY DEF Inv, Shape
  <2>3. /\ Len(wire') = Len(wire) + 1
        /\ wire'[Len(wire')] = x
    BY <1>4, <2>2
  <2>4. Said' = [Said EXCEPT ![Reader] = Append(Said[Reader], x)]
    BY <1>1, <1>4
  <2>5. Said[Reader] = wire /\ Said'[Reader] = wire' /\ ~Over[Reader]
    BY <1>1, <1>4
  <2>6. CASE x \in Closing
    <3>1. Over' = [Over EXCEPT ![Reader] = TRUE]
      BY <1>1, <1>4, <2>1, <2>6
    <3> QED
      BY <2>3, <2>4, <2>5, <2>6, <3>1 DEF T!Say
  <2>7. CASE x \notin Closing
    <3>1. Over' = Over
      BY <1>1, <1>4, <2>1, <2>7
    <3> QED
      BY <2>3, <2>4, <2>5, <2>7, <3>1 DEF T!Say
  <2> QED
    BY <2>6, <2>7
<1> QED
  BY <1>2, <1>3, <1>4 DEF T!Next

LEMMA StepSays ==
  ASSUME Inv, Next
  PROVE  \/ wire' = wire /\ (closed' /\ out' = {} <=> closed /\ out = {})
         \/ /\ closed' = closed /\ out # {} /\ out' = {}
            /\ \/ wire' = wire
               \/ \E x \in Entry : wire' = Append(wire, x) /\ x.frame \in out
<1>0. holder = {} <=> out = {}
  BY DEF Inv, Shape, TypeOK
<1>1. ASSUME NEW t \in Tasks, Acquire(t)
      PROVE  wire' = wire /\ (closed' /\ out' = {} <=> closed /\ out = {})
  <2>1. PICK f \in asked[t], g \in Frame :
           /\ g.opcode = f.opcode
           /\ IF closed THEN Finish(t, WriteClosed(g)) /\ UNCHANGED closed
              ELSE /\ holder' = {t} /\ out' = {g}
                   /\ closed' = (g.opcode = "Close")
                   /\ UNCHANGED <<pc, held, last, asked>>
    BY <1>1, AcquireCases DEF Inv
  <2>2. wire' = wire /\ out = {}
    BY <1>0, <1>1 DEF Acquire
  <2>3. CASE closed
    BY <2>1, <2>2, <2>3 DEF Finish
  <2>4. CASE ~closed
    BY <2>1, <2>2, <2>4
  <2> QED
    BY <2>3, <2>4
<1>2. ASSUME NEW t \in Tasks, NEW w \in BOOLEAN, t \in holder,
             Put(t, w) \/ UNCHANGED wire, closed' = closed, out' = {}
      PROVE  /\ closed' = closed /\ out # {} /\ out' = {}
             /\ \/ wire' = wire
                \/ \E x \in Entry : wire' = Append(wire, x) /\ x.frame \in out
  BY <1>0, <1>2, PutShape DEF Inv
<1>3. ASSUME NEW t \in Tasks, WriteDone(t) \/ WriteFails(t)
      PROVE  /\ t \in holder /\ closed' = closed /\ out' = {}
             /\ \E w \in BOOLEAN : Put(t, w) \/ UNCHANGED wire
  BY <1>3 DEF WriteDone, WriteFails, Finish
<1>4. ASSUME NEW t \in Tasks, Drop(t)
      PROVE  /\ closed' = closed
             /\ \/ t \in holder /\ out' = {} /\ (Put(t, FALSE) \/ UNCHANGED wire)
                \/ wire' = wire /\ out' = out
  BY <1>4 DEF Drop
<1>5. CASE \/ Hear \/ Quiet
           \/ \E t \in Writers, f \in AppFrames : CallWrite(t, f)
  BY <1>5 DEF Hear, HearFrame, CallWrite, Quiet, StartRead, ParseFails,
              DropRead, SetRead, SetWrite
<1> QED
  BY <1>1, <1>2, <1>3, <1>4, <1>5 DEF Next, Quiet

\* What all tasks write together is one log that a Close ends.
THEOREM SplitTranscript == Spec => WireIsTranscript
<1>1. Init => T!Init
  BY DEF Init, T!Init, Said, Over
<1>2. Inv /\ [Next]_vars => [T!Next]_<<Said, Over>>
  <2> SUFFICES ASSUME Inv, [Next]_vars PROVE [T!Next]_<<Said, Over>>
    OBVIOUS
  <2>1. CASE Next
    BY <2>1, StepSays, SaysOrNot
  <2>2. CASE UNCHANGED vars
    BY <2>2 DEF vars, Said, Over
  <2> QED
    BY <2>1, <2>2
<1> QED
  BY <1>1, <1>2, Always, PTL DEF Spec, WireIsTranscript, T!Spec

-----------------------------------------------------------------------------
(* Pongs *)

LEMMA BeginsItself ==
  ASSUME NEW s \in Seq(Data) PROVE Begins(s, s)
  BY DEF Begins

LEMMA BeginsAppend ==
  ASSUME NEW s \in Seq(Data), NEW t \in Seq(Data), NEW x \in Data, Begins(s, t)
  PROVE  Begins(s, Append(t, x))
<1>1. /\ Len(Append(t, x)) = Len(t) + 1
      /\ \A i \in 1 .. Len(t) : Append(t, x)[i] = t[i]
      /\ Len(s) \in Nat /\ Len(t) \in Nat
  OBVIOUS
<1> QED
  BY <1>1 DEF Begins

LEMMA BeginsLonger ==
  ASSUME NEW s \in Seq(Data), NEW t \in Seq(Data), NEW f \in Frame,
         t = s \o PongOf(f)
  PROVE  Begins(s, t)
<1>1. CASE f.opcode = "Pong"
  <2>1. f.payload.data \in Data
    BY DEF Frame, Payload
  <2>2. t = Append(s, f.payload.data)
    BY <1>1, <2>1 DEF PongOf
  <2> QED
    BY <2>1, <2>2, BeginsItself, BeginsAppend
<1>2. CASE f.opcode # "Pong"
  <2>1. t = s
    BY <1>2 DEF PongOf
  <2> QED
    BY <2>1, BeginsItself
<1> QED
  BY <1>1, <1>2

\* What the reader owes is on the wire, or it is the one frame that it has
\* asked for, up to the Close of whichever task.
Mirrors ==
  /\ owed \in Seq(Data)
  /\ ~lost => Begins(Replied, owed)
  /\ ~lost /\ ~closed =>
       /\ asked[Reader] = {} => owed = Replied
       /\ \A g \in asked[Reader] : owed = Replied \o PongOf(g)
       /\ Reader \in holder => \A f \in out : owed = Replied \o PongOf(f)

LEMMA RepliedTyped ==
  ASSUME wire \in Seq(Entry) PROVE Replied \in Seq(Data)
<1>1. OfFrames(Entry)
  BY DEF OfFrames, Entry
<1>2. CASE Entry = {}
  <2>1. wire = <<>>
    BY <1>2
  <2>2. <<>> \in Seq(Data)
    OBVIOUS
  <2> QED
    BY <2>1, <2>2, PongsEmpty DEF Replied
<1>3. CASE Entry # {}
  BY <1>1, <1>3, PongsAppend DEF Replied
<1> QED
  BY <1>2, <1>3

LEMMA AcquireData ==
  ASSUME Shape, NEW t \in Tasks, Acquire(t), ~closed
  PROVE  \E f \in asked[t], g \in Frame :
           /\ PongOf(g) = PongOf(f)
           /\ holder' = {t} /\ out' = {g} /\ asked' = asked
<1>1. PICK f \in asked[t] : \E g \in Outgoing([cfg EXCEPT !.autoApplyMask = masks], f) :
        holder' = {t} /\ out' = {g} /\ asked' = asked
  BY DEF Acquire
<1>2. f \in Frame
  BY DEF Shape, TypeOK
<1>3. PICK g \in Outgoing([cfg EXCEPT !.autoApplyMask = masks], f) :
        holder' = {t} /\ out' = {g} /\ asked' = asked
  BY <1>1
<1>4. g \in Frame /\ PongOf(g) = PongOf(f)
  BY <1>2, OutgoingTyped, OutgoingKeepsData DEF PongOf
<1> QED
  BY <1>3, <1>4

LEMMA HearMirrors ==
  ASSUME Shape, Mirrors, NEW f \in Frame, HearFrame(f) PROVE Mirrors'
<1>1. /\ pc = "read" /\ cfg \in Config /\ f.payload.data \in Data
      /\ UNCHANGED <<closed, holder, out, wire, lost>>
  BY DEF HearFrame, Shape, TypeOK, Frame, Payload
<1>2. asked[Reader] = {} /\ Reader \notin holder /\ Reader \in Tasks
  BY <1>1, ReaderIsTask DEF Shape, TypeOK
<1>3. Replied' = Replied /\ Replied \in Seq(Data)
  BY <1>1, RepliedTyped DEF Replied, Shape
<1>4. owed' = IF f.opcode = "Ping" /\ cfg.autoPong
              THEN Append(owed, f.payload.data) ELSE owed
  BY DEF HearFrame
<1>5. PICK o \in ReadFrameInner(cfg, f) :
        IF o.send = {} THEN Settle(o.res) /\ UNCHANGED asked
        ELSE /\ pc' = "send" /\ held' = o.res
             /\ asked' = [asked EXCEPT ![Reader] = o.send]
             /\ UNCHANGED last
  BY DEF HearFrame
<1>6. asked'[Reader] = o.send
  BY <1>2, <1>5 DEF Shape, TypeOK
<1>7. CASE f.opcode = "Ping" /\ cfg.autoPong
  <2>1. PICK r \in Frame : o.send = {r} /\ PongOf(r) = <<f.payload.data>>
    BY <1>1, <1>7, PingOutcome DEF PongOf
  <2>2. owed' = Append(owed, f.payload.data)
    BY <1>4, <1>7
  <2>3. owed' \in Seq(Data) /\ (~lost' => Begins(Replied', owed'))
    BY <1>1, <1>3, <2>2, BeginsAppend DEF Mirrors
  <2>4. ~lost /\ ~closed => owed' = Replied \o PongOf(r)
    BY <1>2, <1>3, <2>1, <2>2 DEF Mirrors
  <2> QED
    BY <1>1, <1>2, <1>3, <1>6, <2>1, <2>3, <2>4 DEF Mirrors
<1>8. CASE ~(f.opcode = "Ping" /\ cfg.autoPong)
  <2>1. owed' = owed
    BY <1>4, <1>8
  <2>2. \A g \in o.send : PongOf(g) = <<>>
    BY <1>1, <1>8, PingOutcome DEF PongOf
  <2>3. Replied \o <<>> = Replied
    BY <1>3
  <2> QED
    BY <1>1, <1>2, <1>3, <1>6, <2>1, <2>2, <2>3 DEF Mirrors
<1> QED
  BY <1>7, <1>8

LEMMA AcquireMirrors ==
  ASSUME Shape, Mirrors, NEW t \in Tasks, Acquire(t) PROVE Mirrors'
<1>1. UNCHANGED <<wire, owed, lost>> /\ Replied' = Replied
  BY DEF Acquire, Replied
<1>2. CASE closed
  <2>1. closed' = closed
    BY <1>2 DEF Acquire
  <2> QED
    BY <1>1, <1>2, <2>1 DEF Mirrors
<1>3. CASE ~closed
  <2>1. PICK f \in asked[t], g \in Frame :
           /\ PongOf(g) = PongOf(f)
           /\ holder' = {t} /\ out' = {g} /\ asked' = asked
    BY <1>3, AcquireData
  <2> QED
    BY <1>1, <1>3, <2>1 DEF Mirrors
<1> QED
  BY <1>2, <1>3

LEMMA WriteDoneMirrors ==
  ASSUME Shape, Wired, Mirrors, NEW t \in Tasks, WriteDone(t) PROVE Mirrors'
<1>1. /\ t \in holder /\ holder' = {} /\ asked' = [asked EXCEPT ![t] = {}]
      /\ UNCHANGED <<closed, owed, lost>> /\ wire \in Seq(Entry)
  BY DEF WriteDone, Finish, Shape
<1>2. PICK f \in out : wire' = Append(wire, [frame |-> f, whole |-> TRUE, by |-> t])
  BY DEF WriteDone, Put
<1> DEFINE x == [frame |-> f, whole |-> TRUE, by |-> t]
<1>3. f \in Frame /\ x \in Entry /\ x.frame = f /\ x.by = t
  BY DEF Entry, Shape
<1>4. wire' = Append(wire, x)
  BY <1>2
<1> HIDE DEF x
<1>5. OfFrames(Entry)
  BY DEF OfFrames, Entry
<1>6. Replied' = Replied \o (IF t = Reader THEN PongOf(f) ELSE <<>>)
  BY <1>1, <1>3, <1>4, <1>5, PongsAppend DEF Replied
<1>7. Replied \in Seq(Data) /\ Replied \o <<>> = Replied
  BY <1>1, RepliedTyped
<1>8. CASE closed
  <2>1. PongOf(f) = <<>>
    BY <1>8 DEF Wired, PongOf
  <2>2. Replied' = Replied
    BY <1>6, <1>7, <2>1
  <2> QED
    BY <1>1, <1>8, <2>2 DEF Mirrors
<1>9. CASE ~closed /\ t = Reader
  <2>1. asked'[Reader] = {}
    BY <1>1, <1>9 DEF Shape, TypeOK
  <2>2. ~lost => owed = Replied'
    BY <1>1, <1>6, <1>9 DEF Mirrors
  <2> QED
    BY <1>1, <1>9, <2>1, <2>2, BeginsItself DEF Mirrors
<1>10. CASE ~closed /\ t # Reader
  <2>1. asked'[Reader] = asked[Reader]
    BY <1>1, <1>10, ReaderIsTask DEF Shape, TypeOK
  <2>2. Replied' = Replied
    BY <1>6, <1>7, <1>10
  <2> QED
    BY <1>1, <1>10, <2>1, <2>2 DEF Mirrors
<1> QED
  BY <1>8, <1>9, <1>10

LEMMA NextMirrors == ASSUME Inv, Mirrors, Next PROVE Mirrors'
<1>1. CASE Hear
  BY <1>1, HeardIsFrame, HearMirrors DEF Inv
<1>2. ASSUME NEW t \in Writers, NEW f \in AppFrames, CallWrite(t, f)
      PROVE  Mirrors'
  <2>1. asked'[Reader] = asked[Reader]
    BY <1>2, ReaderIsTask DEF CallWrite, Inv, Shape, TypeOK
  <2>2. UNCHANGED <<closed, holder, out, wire, owed, lost>>
    BY <1>2 DEF CallWrite
  <2> QED
    BY <2>1, <2>2 DEF Mirrors, Replied
<1>3. ASSUME NEW t \in Tasks, Acquire(t) PROVE Mirrors'
  BY <1>3, AcquireMirrors DEF Inv
<1>4. ASSUME NEW t \in Tasks, WriteDone(t) PROVE Mirrors'
  BY <1>4, WriteDoneMirrors DEF Inv
<1>5. ASSUME NEW t \in Tasks, WriteFails(t) \/ Drop(t) PROVE Mirrors'
  BY <1>5 DEF WriteFails, Drop, Mirrors
<1>6. CASE Quiet
  <2>1. UNCHANGED <<closed, asked, holder, out, wire, owed, lost>>
    BY <1>6 DEF Quiet, StartRead, ParseFails, DropRead, SetRead, SetWrite
  <2> QED
    BY <2>1 DEF Mirrors, Replied
<1> QED
  BY <1>1, <1>2, <1>3, <1>4, <1>5, <1>6 DEF Next, Quiet

MirrorInv == Inv /\ Mirrors

LEMMA MirrorNext == MirrorInv /\ [Next]_vars => MirrorInv'
<1> SUFFICES ASSUME MirrorInv, [Next]_vars PROVE MirrorInv'
  OBVIOUS
<1>1. Inv'
  BY Inductive DEF MirrorInv
<1>2. CASE Next
  BY <1>1, <1>2, NextMirrors DEF MirrorInv
<1>3. CASE UNCHANGED vars
  <2>1. UNCHANGED <<closed, asked, holder, out, wire, owed, lost>>
    BY <1>3 DEF vars
  <2> QED
    BY <1>1, <2>1 DEF MirrorInv, Mirrors, Replied
<1> QED
  BY <1>2, <1>3

\* The pongs of the reader are on the wire in the order of the pings, each
\* once, among whatever other tasks write; none is missing when read_frame goes
\* on, until some task says Close.
THEOREM SplitPongs == Spec => []PongsMirrorPings
<1>1. Init => MirrorInv
  <2> SUFFICES ASSUME Init PROVE Mirrors
    BY InitInv DEF MirrorInv
  <2>1. wire = <<>> /\ owed = <<>> /\ holder = {} /\ asked[Reader] = {}
    BY ReaderIsTask DEF Init
  <2>2. Replied = <<>> /\ <<>> \in Seq(Data)
    BY <2>1, PongsEmpty DEF Replied
  <2> QED
    BY <2>1, <2>2, BeginsItself DEF Mirrors
<1>2. MirrorInv => PongsMirrorPings
  <2> SUFFICES ASSUME MirrorInv PROVE PongsMirrorPings
    OBVIOUS
  <2>1. owed \in Seq(Data) /\ Replied \in Seq(Data)
    BY RepliedTyped DEF MirrorInv, Mirrors, Inv, Shape, TypeOK
  <2>2. ~lost => IsPrefix(Replied, owed)
    BY <2>1, BeginsIsPrefix DEF MirrorInv, Mirrors
  <2>3. ~lost /\ pc # "send" /\ ~closed => Replied = owed
    BY DEF MirrorInv, Mirrors, Inv, Shape, TypeOK
  <2> QED
    BY <2>2, <2>3 DEF PongsMirrorPings
<1> QED
  BY <1>1, <1>2, MirrorNext, PTL DEF Spec

=============================================================================
