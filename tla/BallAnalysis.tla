---------------------------- MODULE BallAnalysis ----------------------------
(***************************************************************************)
(* What the analysis thread does with each ball it finds or misses:        *)
(* analysis_update of src/src/tracker/analysis.cpp with isInGoal,          *)
(* getPlayerBar and getPlayerWhoScored.  One step is one call.             *)
(*                                                                         *)
(* A ball position is abstracted to what the function asks about it: the   *)
(* goal it lies in (isInGoal), the bar that owns its strip of the field    *)
(* (getPlayerBar), and whether it is in front of a goal (the SAVE test).   *)
(* The speed since the previous ball is an input in km/h.  stableFPS is    *)
(* written by the GL thread at any time, so each call reads any value.     *)
(***************************************************************************)
EXTENDS Integers, Sequences, FiniteSets, SequencesExt, FiniteSetsExt

CONSTANTS
  HistoryCount,     \* length of the ball history (analysis.cpp:25)
  BallSpeedCount,   \* length of the speed history (analysis.cpp:47)
  GoalMissing,      \* missing frames that make a goal (analysis.cpp:241)
  FramesApart,      \* largest gap two positions of a shot have (:202)
  WarmUp,           \* frames before speeds are used (:202, :263)
  BarThreshold,     \* playerBarFrameThreshold (:127)
  SignalDelay,      \* tenths of a second: 5 in the code (:175, :181, :263)
  GoalGap,          \* tenths of a second: 15 in the code (:246)
  PlayerWindow,     \* tenths of a second: 25 in the code (:139)
  SpeedWindow,      \* tenths of a second: 50 in the code (:265)
  FPS,              \* the values stableFPS takes
  Position,         \* [bar : 0 .. 8, goal : 0 .. 2, near : BOOLEAN]
  Speed,            \* km/h
  MaxFrames,        \* bound: calls of analysis_update
  MaxShots          \* bound: calls that see a speed above 15 km/h

ASSUME AnalysisAssumption ==
  /\ HistoryCount \in Nat \ {0} /\ BallSpeedCount \in Nat \ {0}
  /\ GoalMissing \in Nat /\ FramesApart \in Nat /\ WarmUp \in Nat
  /\ BarThreshold \in Nat \ {0, 1}   \* compared when a hit repeats
  /\ FPS \subseteq Nat
  /\ {SignalDelay, GoalGap, PlayerWindow, SpeedWindow} \subseteq Nat
  /\ \A fps \in FPS :               \* "5 seconds at 60 fps" (:47)
       SpeedWindow * fps <= 10 * BallSpeedCount
  /\ Position \subseteq [bar : 0 .. 8, goal : 0 .. 2, near : BOOLEAN]
  /\ Speed \subseteq Nat
  /\ MaxFrames \in Nat /\ MaxShots \in Nat

\* Numbers of frames, as int() truncates them.
Frames(tenths, fps) == (tenths * fps) \div 10
HalfSecond(fps) == Frames(SignalDelay, fps)
LastGoalGap(fps) == Frames(GoalGap, fps)
LookBack(fps) == Frames(PlayerWindow, fps)
LastSpeeds(fps) == Frames(SpeedWindow, fps)

\* barTeams: 1 for the bars of blue, 2 for those of red, 0 for no bar.
barTeams == [bar \in 0 .. 8 |->
              IF bar = 0 THEN 0 ELSE IF bar \in {1, 2, 4, 6} THEN 1 ELSE 2]

\* The zero-initialised history: (0,0) is a corner in the keeper's strip.
Corner == [bar |-> 1, goal |-> 0, near |-> FALSE]
NeverSeen == 1000   \* initial ballMissing

VARIABLES
  frameNumber,
  balls, ballCur,                \* the ball history and its write position
  prevBallFrame,                 \* ballFrames of the newest entry
  ballMissing,
  sendSAVE, sendFAST, lastGOAL,  \* the static variables of analysis_update
  ballSpeeds, ballSpeedIndex, ballSpeedFramesSinceLastUpdate,
  sent,                          \* messages the last call sent, in order
  recent, speedLog,              \* history: newest first, what was stored
  saveShot, fastShot,            \* history: frame of the shot last armed
  detected,                      \* history: frame of the last goal detected
  shots                          \* history: calls with a speed above 15 km/h

ballVars == <<balls, ballCur, prevBallFrame, recent>>
signalVars == <<sendSAVE, sendFAST, saveShot, fastShot>>
speedVars == <<ballSpeeds, ballSpeedIndex, speedLog>>
analysisVars == <<frameNumber, ballVars, ballMissing, signalVars, lastGOAL,
                  speedVars, ballSpeedFramesSinceLastUpdate, sent, detected, shots>>

AnalysisInit ==
  /\ frameNumber = 0
  /\ balls = [i \in 0 .. HistoryCount - 1 |-> Corner]
  /\ ballCur = 0 /\ prevBallFrame = 0
  /\ ballMissing = NeverSeen
  /\ sendSAVE = 0 /\ sendFAST = 0 /\ lastGOAL = 0
  /\ ballSpeeds = [i \in 0 .. BallSpeedCount - 1 |-> 0]
  /\ ballSpeedIndex = 0 /\ ballSpeedFramesSinceLastUpdate = 0
  /\ sent = <<>>
  /\ recent = <<>> /\ speedLog = <<>>
  /\ saveShot = 0 /\ fastShot = 0 /\ detected = 0 /\ shots = 0

-----------------------------------------------------------------------------
(* The two rings                                                            *)

Next1(i, n) == IF i + 1 >= n THEN 0 ELSE i + 1
Prev1(i, n) == IF i = 0 THEN n - 1 ELSE i - 1

\* The k-th entry of the ball history before the write position.
LookedBackFromCur(k) == balls[(ballCur + HistoryCount - k + 1) % HistoryCount]
LookedBack(k) == balls[(ballCur + HistoryCount - k) % HistoryCount]

\* The newest entry of the ball history (prevIdx).
PrevBall == balls[Prev1(ballCur, HistoryCount)]

StoreBall(pos) ==
  /\ balls' = [balls EXCEPT ![ballCur] = pos]
  /\ ballCur' = Next1(ballCur, HistoryCount)
  /\ prevBallFrame' = frameNumber'
  /\ recent' = SubSeq(<<pos>> \o recent, 1, Min({HistoryCount, Len(recent) + 1}))

StoreSpeed(v) ==
  /\ ballSpeeds' = [ballSpeeds EXCEPT ![ballSpeedIndex] = v]
  /\ ballSpeedIndex' = Next1(ballSpeedIndex, BallSpeedCount)
  /\ speedLog' = SubSeq(<<v>> \o speedLog, 1,
                        Min({BallSpeedCount, Len(speedLog) + 1}))

-----------------------------------------------------------------------------
(* getPlayerWhoScored                                                       *)

\* One turn of the loop, at bar p: skip the bars of the given team, count how
\* often the same bar occurs in a row, and do nothing more at the threshold.
NoHits == [player |-> 0, hits |-> 0]
Hit(state, p, team) ==
  IF state.hits = BarThreshold \/ barTeams[p] = team THEN state
  ELSE [player |-> p, hits |-> IF p = state.player THEN state.hits + 1 ELSE 1]

\* The loop walks back over the history.
HitsOver(window, team) ==
  FoldLeft(LAMBDA state, k : Hit(state, LookedBack(k).bar, team), NoHits,
           [k \in 1 .. window |-> k])
getPlayerWhoScored(team, fps) ==
  LET end == HitsOver(Min({LookBack(fps), HistoryCount}), team)
  IN  IF end.hits = BarThreshold THEN end.player ELSE 0

-----------------------------------------------------------------------------
(* Signals                                                                  *)

\* A delayed signal counts calls while it is armed and goes out when the
\* count exceeds half a second.
Due(x, fps) == x # 0 /\ x > HalfSecond(fps)
Tick(x, fps) == IF x = 0 \/ Due(x, fps) THEN 0 ELSE x + 1

DueSignals(fps) ==
  (IF Due(sendSAVE, fps) THEN <<[type |-> "SAVE", value |-> 0]>> ELSE <<>>)
  \o (IF Due(sendFAST, fps) THEN <<[type |-> "FAST", value |-> 0]>> ELSE <<>>)

KeepSignals(fps) ==
  /\ sendSAVE' = Tick(sendSAVE, fps)
  /\ sendFAST' = Tick(sendFAST, fps)
  /\ UNCHANGED <<saveShot, fastShot>>

\* A shot in front of a goal arms SAVE, else a very fast one arms FAST.
ArmSignals(pos, v, fps) ==
  IF v > 15 /\ pos.near
  THEN /\ sendSAVE' = 1 /\ sendFAST' = Tick(sendFAST, fps)
       /\ saveShot' = frameNumber' /\ UNCHANGED fastShot
  ELSE IF v > 30
  THEN /\ sendSAVE' = Tick(sendSAVE, fps) /\ sendFAST' = 1
       /\ fastShot' = frameNumber' /\ UNCHANGED saveShot
  ELSE KeepSignals(fps)

\* A goal disarms both.
DisarmSaveOnly(fps) ==
  /\ sendSAVE' = 0 /\ sendFAST' = Tick(sendFAST, fps)
  /\ UNCHANGED <<saveShot, fastShot>>
Disarm(fps) ==
  /\ sendSAVE' = 0 /\ sendFAST' = 0
  /\ UNCHANGED <<saveShot, fastShot>>

\* The fastest of the last five seconds: the entries i of the loop run from
\* ballSpeedIndex - LastSpeeds(fps) to the one before ballSpeedIndex.
MaxSpeedClipped(fps) ==
  Max({0} \union {ballSpeeds'[i] : i \in
        Max({0, ballSpeedIndex' - LastSpeeds(fps)}) .. ballSpeedIndex' - 1})
MaxSpeed(fps) ==
  Max({0} \union {ballSpeeds'[IF i < 0 THEN i + BallSpeedCount ELSE i] :
        i \in ballSpeedIndex' - LastSpeeds(fps) .. ballSpeedIndex' - 1})

SpeedDue(fps) ==
  frameNumber' > WarmUp /\ ballSpeedFramesSinceLastUpdate > HalfSecond(fps)

\* The end of a call: perhaps report the maximum, and send what there is.
Finish(goals, fps) ==
  LET speeds == IF SpeedDue(fps)
                THEN <<[type |-> "MAXSPEED", value |-> MaxSpeed(fps)]>> ELSE <<>>
  IN  /\ sent' = DueSignals(fps) \o goals \o speeds
      /\ ballSpeedFramesSinceLastUpdate' =
           IF SpeedDue(fps) THEN 1 ELSE ballSpeedFramesSinceLastUpdate + 1

-----------------------------------------------------------------------------
(* analysis_update                                                          *)

BeginUpdate ==
  /\ frameNumber < MaxFrames
  /\ frameNumber' = frameNumber + 1

\* The ball was found; it moved with speed v since the previous one.
BallFound(pos, v, fps) ==
  LET shot == frameNumber' - prevBallFrame <= FramesApart /\ frameNumber' > WarmUp
  IN  /\ BeginUpdate
      /\ ballMissing' = 0
      /\ StoreBall(pos)
      /\ \/ /\ shot
            /\ StoreSpeed(v) /\ ArmSignals(pos, v, fps)
            /\ shots' = shots + IF v > 15 THEN 1 ELSE 0
            /\ shots' <= MaxShots
         \/ /\ ~shot /\ v = Min(Speed)   \* v is not looked at
            /\ KeepSignals(fps) /\ UNCHANGED <<speedVars, shots>>
      /\ Finish(<<>>, fps)
      /\ UNCHANGED <<lastGOAL, detected>>

\* The ball has been missing for the number of frames that makes a goal.
GoneSinceOrMore == ballMissing >= GoalMissing /\ ballMissing < NeverSeen
GoneSince == ballMissing = GoalMissing

\* No ball in this frame, and no goal either.
BallMissed(fps) ==
  /\ BeginUpdate
  /\ ~(GoneSince /\ PrevBall.goal # 0)
  /\ ballMissing' = ballMissing + 1
  /\ StoreSpeed(0)
  /\ KeepSignals(fps)
  /\ Finish(<<>>, fps)
  /\ UNCHANGED <<ballVars, lastGOAL, detected, shots>>

\* The ball disappeared in a goal: report it unless one was reported just now.
GoalDetected(fps) ==
  LET goal == PrevBall.goal
      report == frameNumber' - lastGOAL >= LastGoalGap(fps)
  IN  /\ BeginUpdate
      /\ GoneSince /\ goal # 0
      /\ ballMissing' = ballMissing + 1
      /\ StoreSpeed(0)
      /\ Disarm(fps)
      /\ detected' = frameNumber'
      /\ lastGOAL' = IF report THEN frameNumber' ELSE lastGOAL
      /\ Finish(IF report
                THEN <<[type |-> IF goal = 1 THEN "RG" ELSE "BG",
                        value |-> getPlayerWhoScored(goal, fps)]>>
                ELSE <<>>, fps)
      /\ UNCHANGED <<ballVars, shots>>

analysis_update ==
  \E fps \in FPS :
    \/ \E pos \in Position, v \in Speed : BallFound(pos, v, fps)
    \/ BallMissed(fps)
    \/ GoalDetected(fps)

AnalysisSpec == AnalysisInit /\ [][analysis_update]_analysisVars

-----------------------------------------------------------------------------
(* Properties                                                               *)

\* What getPlayerWhoScored is for, without its ring and its counters: of the
\* balls of the last 2.5 seconds, newest first and without those at the bars
\* of `team`, the first BarThreshold in a row at one bar.  Where fewer balls
\* were found the history still holds its initial (0,0): blue's keeper.
BarAgo(k) == IF k <= Len(recent) THEN recent[k].bar ELSE Corner.bar
Others(team, window) == {k \in 1 .. window : barTeams[BarAgo(k)] # team}
Row(team, j, k) == Others(team, k) \ Others(team, j - 1)
RowEnds(team, k) ==
  \E j \in 1 .. k : /\ Cardinality(Row(team, j, k)) = BarThreshold
                    /\ \A i \in Row(team, j, k) : BarAgo(i) = BarAgo(k)
Scorer(team, fps) ==
  LET ends == {k \in Others(team, Min({LookBack(fps), HistoryCount})) : RowEnds(team, k)}
  IN  IF ends = {} THEN 0 ELSE BarAgo(Min(ends))

\* The bar a goal is credited to is the one the definition above names,
\* wherever the ring stands and however often it has wrapped
\* (analysis.cpp:133-164).
PlayerByReference ==
  \A team \in {1, 2}, fps \in FPS :
    getPlayerWhoScored(team, fps) = Scorer(team, fps)

Sends(types) == \E i \in DOMAIN sent' : sent'[i].type \in types
ClearOfGoals(shot) == detected < shot /\ frameNumber' - shot > HalfSecond(Min(FPS))

\* "Only send the signals if they do not get interrupted by a goal within 0.5
\* seconds" (analysis.cpp:173): whatever the ball does after the shot, a SAVE
\* or FAST is sent only if no goal was detected since the shot that armed it,
\* and more than half a second after that shot.
SignalsNotInterrupted ==
  [][/\ Sends({"SAVE"}) => ClearOfGoals(saveShot)
     /\ Sends({"FAST"}) => ClearOfGoals(fastShot)]_analysisVars

\* One disappearance of the ball makes at most one goal message, a fixed
\* number of frames after the last sighting, and it is the only one since
\* that sighting (analysis.cpp:241-247).
OneGoalPerDisappearance ==
  [][Sends({"RG", "BG"}) =>
       /\ frameNumber' = prevBallFrame + GoalMissing + 1
       /\ lastGOAL = 0 \/ lastGOAL < prevBallFrame]_analysisVars

\* The speed reported is the largest of those stored in the last five seconds
\* at the frame rate read, also when the ring has wrapped in between
\* (analysis.cpp:263-273).
MaxSpeedIsRecentMax ==
  \A i \in DOMAIN sent : sent[i].type = "MAXSPEED" =>
    \E fps \in FPS :
      sent[i].value =
        Max({0} \union {speedLog[k] : k \in 1 .. Min({LastSpeeds(fps), Len(speedLog)})})
=============================================================================
