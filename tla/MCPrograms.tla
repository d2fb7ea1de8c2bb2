----------------------------- MODULE MCPrograms -----------------------------
(***************************************************************************)
(* The programs of the repository over the command channel that            *)
(* libtmc200ctrl_io implements: a behaviour is one of the ROS node or one  *)
(* of tmc200ctrl_direct_test.                                              *)
(***************************************************************************)
EXTENDS Tmc200Controller, DirectApp

VARIABLE program

vars == <<channelVars, nodeVars, directVars, program>>

AllCommands ==
  {"SV"} \cup ToSet(ParameterCommands) \cup Range(TopicCommand) \cup Range(ServiceCommand)

CONSTANT Programs

Init ==
  /\ program \in Programs
  /\ ChannelInit /\ NodeInit
  /\ IF program = "direct" THEN DirectInit /\ period = CHOOSE p \in Periods : TRUE
     ELSE /\ directAt = "init" /\ document = <<>> /\ children = <<>>
          /\ bThrowUnknownTMC200CommandException = FALSE

Next ==
  /\ UNCHANGED program
  /\ \/ program = "node" /\ NodeStep /\ UNCHANGED directVars
     \/ program = "direct" /\ DirectStep /\ UNCHANGED nodeVars

Spec == Init /\ [][Next]_vars /\ (program = "node" => NodeFairness)

=============================================================================
