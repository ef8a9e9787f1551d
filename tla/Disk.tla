-------------------------------- MODULE Disk --------------------------------
(***************************************************************************)
(* hw37-file-disks/disk.py: a disk with three tracks that serves a queue   *)
(* of requests.  A step is a tick, a call of Animate().  Angles are in     *)
(* degrees, the arm in pixels from the outer track; estimates of time are  *)
(* multiplied by both speeds, which makes integers of them.                *)
(* disk-precise.py differs in the window of BSATF, and has decimals where  *)
(* disk.py has floats, one of which it forgets to convert (SubtractsFloat).*)
(***************************************************************************)
EXTENDS Integers, Sequences, SequencesExt, FiniteSetsExt

CONSTANT Inputs   \* the options, the requests and the late requests

VARIABLES
  input,    \* precise, policy, window, skew, zoning, speeds, requests, late,
            \* lateAddr: late is given (-l) and not drawn (-L)
  self,     \* the disk, the queue and the request in service
  phase     \* "run", "end", "assert" or "error" (an exception), both of them
            \* in DoSATF() or DoSSTF()

vars == <<input, self, phase>>

NumRequests == Len(input.requests) + Len(input.late)
TrackWidth == 40
Abs(n) == IF n < 0 THEN -n ELSE n

-----------------------------------------------------------------------------
(* Zones and block layout.                                                 *)

Tracks == 0 .. 2

\* Half of the angle of a block.
BlockAngleOffset(track) == input.zoning[track + 1] \div 2
BlocksOn(track) == (359 \div (2 * BlockAngleOffset(track))) + 1

FirstBlock(track) ==
  CASE track = 0 -> 0
    [] track = 1 -> BlocksOn(0)
    [] track = 2 -> BlocksOn(0) + BlocksOn(1)
TracksBeginEnd(track) == <<FirstBlock(track), FirstBlock(track) + BlocksOn(track) - 1>>

BlockToTrack(block) == Max({t \in Tracks : FirstBlock(t) <= block})

\* The angle of the middle of a block.
BlockToAngle(block) ==
  LET track == BlockToTrack(block)
  IN ((block - FirstBlock(track) + track * input.skew) * 2 * BlockAngleOffset(track)
        + 180) % 360

BlockBegin(block) == (BlockToAngle(block) - BlockAngleOffset(BlockToTrack(block))) % 360

\* Where a transfer that the arm makes from its track ends.
BlockEnd(block, track) == (BlockToAngle(block) + BlockAngleOffset(track)) % 360

-----------------------------------------------------------------------------
(* The window of the policy.                                               *)

FairWindow == IF input.policy = "BSATF" THEN input.window ELSE -1

\* Mutant of GetWindow: the window grows with the requests of the queue.
GetWindowLate(d) ==
  IF FairWindow # -1 /\ d.requestCount > 0 /\ d.requestCount % FairWindow = FairWindow - 1
  THEN d.currWindow + FairWindow
  ELSE d.currWindow

\* GetWindow() opens the window of BSATF by as much as it has served.
GetWindow(d) ==
  IF FairWindow # -1 /\ d.requestCount > 0 /\ d.requestCount % FairWindow = 0
  THEN d.currWindow + FairWindow
  ELSE d.currWindow

\* In disk-precise.py by no more than are in the queue.
GetWindowPrecise(d) ==
  IF GetWindow(d) = d.currWindow THEN d.currWindow
  ELSE Min({GetWindow(d), Len(d.requestQueue)})

\* UpdateWindow() moves the window of the others after every request.
UpdateWindow(d) ==
  IF FairWindow = -1 /\ 0 < d.currWindow /\ d.currWindow < Len(d.requestQueue)
  THEN [d EXCEPT !.currWindow = @ + 1]
  ELSE d

InWindow(d) ==
  1 .. IF d.currWindow = -1 THEN Len(d.requestQueue)
       ELSE Min({d.currWindow, Len(d.requestQueue)})

-----------------------------------------------------------------------------
(* Policies.                                                               *)

SeekEst(d, block) ==
  (TrackWidth * Abs(d.armTrack - BlockToTrack(block))) \div input.seekSpeed

\* In disk-precise.py the angle at arrival is a Decimal; to bring it below 360 a
\* float is subtracted, a TypeError.
SubtractsFloat(d, block) ==
  input.precise /\ d.angle + SeekEst(d, block) * input.rotateSpeed > 360

\* Of a time in ticks, times rotateSpeed.
TotalEst(d, block) ==
  LET turn == SeekEst(d, block) * input.rotateSpeed
      offset == BlockAngleOffset(BlockToTrack(block))
  IN turn + ((BlockToAngle(block) - offset - d.angle - turn) % 360) + 2 * offset

NotDone(d, indexes) == {k \in indexes : d.requestState[k] # "DONE"}

\* DoSATF(): the first of those with the shortest access time.
DoSATF(d, indexes) ==
  LET est(k) == TotalEst(d, d.requestQueue[k])
      all == NotDone(d, indexes)
  IN Min({k \in all : \A j \in all : est(k) <= est(j)})

\* DoSSTF(): those on the nearest track.
DoSSTF(d, indexes) ==
  LET dist(k) == Abs(d.armTrack - BlockToTrack(d.requestQueue[k]))
      all == NotDone(d, indexes)
  IN {k \in all : \A j \in all : dist(k) <= dist(j)}

SwitchState(d, newState) ==
  [d EXCEPT !.state = newState, !.requestState[d.currentIndex] = newState]

CurrentBlock(d) == d.requestQueue[d.currentIndex]

PlanSeek(d) ==
  LET track == BlockToTrack(CurrentBlock(d))
  IN IF track = d.armTrack
     THEN SwitchState([d EXCEPT !.seekBegin = d.timer, !.rotBegin = d.timer], "ROTATE")
     ELSE SwitchState([d EXCEPT !.seekBegin = d.timer, !.armTarget = track,
                                !.armSpeed = IF track >= d.armTrack THEN input.seekSpeed
                                             ELSE -input.seekSpeed], "SEEK")

\* A late request is added after each that is started.
AddRequest(d) ==
  IF d.lateCount < Len(input.late)
  THEN [d EXCEPT !.requestQueue = Append(@, input.late[d.lateCount + 1]),
                 !.lateCount = @ + 1]
  ELSE d

Candidates(d) ==
  CASE input.policy = "FIFO" -> {d.requestCount + 1}
    [] input.policy = "SSTF" -> DoSSTF(d, InWindow(d))
    [] OTHER -> InWindow(d)

\* Late requests that are given are never converted to numbers: they are on no
\* track, a KeyError for the first policy that looks at one.
IsText(index) == input.lateAddr /\ index > Len(input.requests)

LooksAt(d) ==
  NotDone(d, IF input.policy = "FIFO" THEN {d.requestCount + 1} ELSE InWindow(d))

Raises(d) ==
  \/ \E k \in LooksAt(d) : IsText(k)
  \/ \E k \in NotDone(d, Candidates(d)) : SubtractsFloat(d, d.requestQueue[k])

\* GetNextIO(): what d can become, and the phase.
GetNextIO(d) ==
  IF d.requestCount = Len(d.requestQueue) THEN {<<d, "end">>}
  ELSE UNION {
    IF Raises(e) THEN {<<e, "error">>}
    ELSE IF NotDone(e, Candidates(e)) = {} THEN {<<e, "assert">>}
    ELSE {<<AddRequest(f), "run">> : f \in
            {PlanSeek([e EXCEPT !.currentIndex = k, !.totalEst = TotalEst(e, e.requestQueue[k])]) :
               k \in {DoSATF(e, Candidates(e))}}} :
    e \in {[d EXCEPT !.currWindow = IF input.precise THEN GetWindowPrecise(d)
                                    ELSE GetWindow(d)]}}

-----------------------------------------------------------------------------
(* The simulation.                                                         *)

NewDisk ==
  [requestQueue |-> input.requests,
   requestState |-> [k \in 1 .. NumRequests |-> "NULL"],   \* the late ones, too
   requestCount |-> 0, lateCount |-> 0, currentIndex |-> 0,
   currWindow |-> input.window, state |-> "NULL", angle |-> 0,
   arm |-> 0, armTrack |-> 0, armTarget |-> 0, armSpeed |-> input.seekSpeed,
   timer |-> 0, seekBegin |-> 0, rotBegin |-> 0, xferBegin |-> 0, totalEst |-> 0]

Init ==
  /\ input \in Inputs
  /\ \E first \in GetNextIO(NewDisk) : self = first[1] /\ phase = first[2]

\* |a1 - a2|, not around the circle.
RadiallyCloseTo(a1, a2) == Abs(a1 - a2) < input.rotateSpeed

\* The disk turns, and the angle starts anew.
Turned(d) ==
  LET angle == d.angle + input.rotateSpeed
  IN [d EXCEPT !.timer = @ + 1, !.angle = IF angle >= 360 THEN 0 ELSE angle]

Sought(d) ==
  LET arm == d.arm + d.armSpeed
      target == TrackWidth * d.armTarget
      done == IF d.armSpeed > 0 THEN arm >= target ELSE arm <= target
  IN IF d.state # "SEEK" THEN d
     ELSE IF ~done THEN [d EXCEPT !.arm = arm]
     ELSE SwitchState([d EXCEPT !.arm = arm, !.armTrack = d.armTarget,
                                !.rotBegin = d.timer], "ROTATE")

Rotated(d) ==
  IF d.state = "ROTATE" /\ RadiallyCloseTo(d.angle, BlockBegin(CurrentBlock(d)))
  THEN SwitchState([d EXCEPT !.xferBegin = d.timer], "XFER")
  ELSE d

DoneWithTransfer(d) ==
  d.state = "XFER" /\ RadiallyCloseTo(d.angle, BlockEnd(CurrentBlock(d), d.armTrack))

Follows(block, nextBlock) ==
  /\ BlockToTrack(block) = BlockToTrack(nextBlock)
  /\ \/ <<nextBlock, block>> = TracksBeginEnd(BlockToTrack(block))
     \/ block + 1 = nextBlock

\* The next request, which begins without rotation if it follows.
AfterTransfer(d, next) ==
  IF Follows(CurrentBlock(d), CurrentBlock(next))
  THEN SwitchState([next EXCEPT !.rotBegin = d.timer, !.seekBegin = d.timer,
                                !.xferBegin = d.timer], "XFER")
  ELSE next

Transferred(d) == SwitchState([d EXCEPT !.requestCount = @ + 1], "DONE")

Animate ==
  /\ phase = "run"
  /\ \E turned \in {Turned(self)} :
       \E sought \in {Sought(turned)} :
         \E d \in {Rotated(sought)} :
           IF ~DoneWithTransfer(d) THEN self' = d /\ phase' = "run"
           ELSE \E next \in UNION {GetNextIO(e) : e \in {UpdateWindow(Transferred(d))}} :
                  self' = AfterTransfer(d, next[1]) /\ phase' = next[2]
  /\ UNCHANGED input

Step == Animate

Ended == phase \in {"end", "assert", "error"} /\ UNCHANGED vars

Next == Step \/ Ended

Spec == Init /\ [][Next]_vars

-----------------------------------------------------------------------------
(* Properties.                                                             *)

\* With the window that disk-precise.py cuts, requests that arrive late may find
\* it closed when all before them are served.
MayFindNone == input.precise /\ FairWindow > 1 /\ input.late # <<>>

\* Late requests that were given, or, in disk-precise.py, a request for which the
\* arm has to leave its track.
MayRaise ==
  \/ input.lateAddr /\ input.late # <<>>
  \/ input.precise /\ \E k \in NotDone(self, DOMAIN self.requestQueue) :
                        BlockToTrack(self.requestQueue[k]) # self.armTrack

\* The arm is on its track unless it seeks, no more than one request is in
\* service, and the policies always find one, unless disk-precise.py has closed
\* its window, or an exception stops the program: it stops every run with late
\* requests that were given (disk.py:479-533, disk-precise.py:473-512).
TypeOK ==
  /\ phase = "assert" => MayFindNone
  /\ phase = "error" => MayRaise
  /\ phase = "end" => ~(input.lateAddr /\ input.late # <<>>)
  /\ self.angle \in 0 .. 359
  /\ self.state # "SEEK" => self.arm = TrackWidth * self.armTrack
  /\ Cardinality({k \in DOMAIN self.requestState :
                    self.requestState[k] \in {"SEEK", "ROTATE", "XFER"}})
       = IF phase = "run" THEN 1 ELSE 0
  /\ self.requestCount =
       Cardinality({k \in DOMAIN self.requestState : self.requestState[k] = "DONE"})
  /\ phase = "end" => self.requestCount = NumRequests

\* A request is overtaken by no more than its window lets by: by none under FIFO
\* and by those of its batch under BSATF, although the window moves with
\* requests that arrive late (disk.py:559-617).
ServedInTurn ==
  self'.requestCount # self.requestCount =>
    LET served == self.requestCount
        index == self.currentIndex - 1
    IN /\ self.requestState[index + 1] # "DONE"
       /\ input.policy = "FIFO" => index = served
       /\ input.policy # "FIFO" /\ input.window # -1 => index < served + input.window
       /\ FairWindow # -1 => index \div input.window = served \div input.window

\* Speeds at which the head meets the beginning and the end of every block.
Smooth ==
  /\ 360 % input.rotateSpeed = 0
  /\ \A t \in Tracks : BlockAngleOffset(t) % input.rotateSpeed = 0

\* The access takes the time that DoSATF() estimated, the comparison that is
\* commented out in disk.py:690-692, when the speeds suit the blocks.
EstimateExact ==
  Smooth /\ self'.requestCount # self.requestCount =>
    (self'.timer - self.seekBegin) * input.rotateSpeed = self.totalEst

=============================================================================
