------------------------------ MODULE MCTmcIo -------------------------------
(***************************************************************************)
(* The scenarios under which TLC checks libtmc200ctrl_io: what goes wrong  *)
(* around the library, and which calls the application makes.              *)
(***************************************************************************)
EXTENDS TmcIoProps

NoFaults == {}

(* Answers that may outlast the read timeout, waits that fail at once, and *)
(* waits that wake up by themselves.                                       *)
LateDevice == {"late", "einval", "spurious"}

(* A machine that runs out of threads; a device that misbehaves but        *)
(* answers, if at all, in time; writes that time out; condition waits that *)
(* wake up by themselves.                                                  *)
PromptDevice == {"create", "err", "silent", "split", "write", "spurious"}

=============================================================================
