------------------------------- MODULE Robots -------------------------------
(* mc_rbdyn::Robots as MCController edits it: the robots by index.  What   *)
(* remembers an index does not follow when a robot is removed.             *)
EXTENDS Integers, Sequences, SequencesExt

CONSTANTS
  RobotName,   \* every robot that can be loaded
  Loaded       \* the robots the constructor loads, in order

ASSUME RobotsAssumption ==
  /\ Loaded \in Seq(RobotName) /\ Loaded # <<>>
  /\ IsInjective(Loaded)

VARIABLE robots    \* robots_, in the order of robotIndex()

HasRobot(r) == r \in ToSet(robots)
IndexOf(r) == CHOOSE i \in DOMAIN robots : robots[i] = r

(* loadRobot() of a robot that is not there.                               *)
BugLoadRobot(r) ==
  /\ ~HasRobot(r)
  /\ robots' = <<Head(robots), r>> \o Tail(robots)
LoadRobot(r) ==
  /\ ~HasRobot(r)
  /\ robots' = Append(robots, r)

(* removeRobot(): the indices of those behind it go down by one.  The main *)
(* robot stays.                                                            *)
RemoveRobot(r) ==
  /\ HasRobot(r) /\ r # Head(robots)
  /\ robots' = RemoveAt(robots, IndexOf(r))
=============================================================================
