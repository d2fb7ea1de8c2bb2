----------------------------- MODULE DirectApp -----------------------------
(***************************************************************************)
(* A program that uses libtmc200ctrl_direct: the example                   *)
(* tmc200ctrl_direct_test.  It starts the library, sends the configuration *)
(* that TMC200CfgXmlParser finds in a file, if one is named, and then an   *)
(* SV command for every + and - on the keyboard, until q.  The sender and  *)
(* the feedback thread are at work beside it.                              *)
(*                                                                         *)
(* The document is the sequence of its nodes in document order, each with  *)
(* its name and its parent (0, the document itself).  The name of an       *)
(* element that is a keyword, in upper or lower case, is the command; any  *)
(* node that is not an element is a "text".                                *)
(***************************************************************************)
EXTENDS CmdChannel, SequencesExt

CONSTANTS Names,          \* the names of nodes
          MaxNodes,       \* how many nodes a document has (a bound)
          MaxKeys,        \* how many commands are given with keys hit (a bound)
          MaxLateAnswers  \* how many answers wait for the callback (a bound)

ASSUME NamesAssumption == Names \subseteq Command \cup {"tmc200cfg", "other", "text"}
ASSUME MaxNodesAssumption == MaxNodes \in Nat

VARIABLES
  directAt,  \* where main is
  document,  \* the file's nodes, or <<>> if none is named or it cannot be loaded
  bThrowUnknownTMC200CommandException,
  children   \* for every active parsXmlNode, innermost first, its child

directVars == <<directAt, document, bThrowUnknownTMC200CommandException, children>>

(* The command that each function of libtmc200ctrl_direct gives to the     *)
(* library: its own, but three of them give SENCO.                         *)
DirectFunctions ==
  {"GVERS", "GMODE", "SMODE", "SV", "SSEND", "SMZNM", "GMZNM", "SENCO", "GENCO", "SMDPT",
   "SRODO", "SVREG", "GVREG"}

DirectCommand ==
  [f \in DirectFunctions |-> IF f \in {"GENCO", "SVREG", "GVREG"} THEN "SENCO" ELSE f]

Nodes == DOMAIN document
Children(node) == {child \in Nodes : document[child].parent = node}
IsElement(node) == document[node].name # "text"

(* As sequences, empty for NULL.                                           *)
FirstChild(node) ==
  IF Children(node) = {} THEN <<>> ELSE <<Min(Children(node))>>
NextSibling(node) ==
  LET later == {sibling \in Children(document[node].parent) : sibling > node}
  IN IF later = {} THEN <<>> ELSE <<Min(later)>>

RootElement == Min({node \in Children(0) : IsElement(node)})

IsDocument(nodes) ==
  \A i \in DOMAIN nodes :
    /\ nodes[i].parent < i
    /\ nodes[i].parent # 0 => nodes[nodes[i].parent].name # "text"
    /\ \A j \in nodes[i].parent + 1 .. i - 1 : nodes[j].parent >= nodes[i].parent

Documents ==
  UNION {{nodes \in [1 .. n -> [name : Names, parent : 0 .. n - 1]] : IsDocument(nodes)}
           : n \in 0 .. MaxNodes}

DirectInit ==
  /\ directAt = "init"
  /\ document \in Documents
  /\ bThrowUnknownTMC200CommandException \in BOOLEAN
  /\ children = <<>>

-----------------------------------------------------------------------------
InitDirect ==
  /\ directAt = "init"
  /\ directAt' \in {"config", "failed"}
  /\ UNCHANGED <<channelVars, document, bThrowUnknownTMC200CommandException, children>>

(* Without a file, or with one that is refused, main goes on.  A document  *)
(* of comments alone has no root element to ask for its name.              *)
Rootless == document # <<>> /\ \A node \in Children(0) : ~IsElement(node)
Refused == document = <<>> \/ document[RootElement].name # "tmc200cfg"

sendConfigurationFromFile ==
  /\ directAt = "config"
  /\ directAt' = IF Rootless THEN "crashed" ELSE IF Refused THEN "repeat" ELSE "parse"
  /\ children' = IF directAt' = "parse" THEN FirstChild(0) ELSE <<>>
  /\ UNCHANGED <<channelVars, document, bThrowUnknownTMC200CommandException>>

Unknown(node) == document[node].name \notin Command \cup {"tmc200cfg", "text"}

(* Mutant: the siblings come before the children.                          *)
parsXmlNodeByLevel ==
  /\ directAt = "parse" /\ children # <<>>
  /\ LET node == Head(children)
     IN /\ IF document[node].name \in Command THEN Accept(document[node].name)
           ELSE UNCHANGED channelVars
        /\ IF Unknown(node) /\ bThrowUnknownTMC200CommandException
           THEN directAt' = "terminated" /\ UNCHANGED children
           ELSE /\ UNCHANGED directAt
                /\ children' = NextSibling(node) \o Tail(children) \o FirstChild(node)
  /\ UNCHANGED <<document, bThrowUnknownTMC200CommandException>>

(* One call of parsXmlNode up to its loop: a command is sent, an unknown   *)
(* one may be thrown, which nobody catches; then come the children.        *)
parsXmlNode ==
  /\ directAt = "parse" /\ children # <<>>
  /\ LET node == Head(children)
     IN /\ IF document[node].name \in Command THEN Accept(document[node].name)
           ELSE UNCHANGED channelVars
        /\ IF Unknown(node) /\ bThrowUnknownTMC200CommandException
           THEN directAt' = "terminated" /\ UNCHANGED children
           ELSE /\ UNCHANGED directAt
                /\ children' = FirstChild(node) \o NextSibling(node) \o Tail(children)
  /\ UNCHANGED <<document, bThrowUnknownTMC200CommandException>>

Configured ==
  /\ directAt = "parse" /\ children = <<>> /\ directAt' = "repeat"
  /\ UNCHANGED <<channelVars, document, bThrowUnknownTMC200CommandException, children>>

SendRepetitive ==
  /\ directAt = "repeat" /\ directAt' = "keys"
  /\ Want(TRUE)
  /\ UNCHANGED <<document, bThrowUnknownTMC200CommandException, children>>

Key ==
  /\ directAt = "keys"
  /\ \/ Len(issued) < MaxKeys /\ Accept(DirectCommand["SV"]) /\ UNCHANGED directAt
     \/ directAt' = "shutdown" /\ UNCHANGED channelVars
  /\ UNCHANGED <<document, bThrowUnknownTMC200CommandException, children>>

ShutdownDirect ==
  /\ directAt = "shutdown" /\ directAt' = "exit"
  /\ ShutDown
  /\ UNCHANGED <<document, bThrowUnknownTMC200CommandException, children>>

DirectLibraryStep ==
  /\ directAt \notin {"failed", "crashed", "exit", "terminated"}
  /\ LibraryStep(directAt = "shutdown")
  /\ Len(answers') <= MaxLateAnswers
  /\ UNCHANGED directVars

DirectStep ==
  \/ InitDirect \/ sendConfigurationFromFile \/ parsXmlNode \/ Configured
  \/ SendRepetitive \/ Key \/ ShutdownDirect \/ DirectLibraryStep

-----------------------------------------------------------------------------
(* Whatever the shape of the document, its commands are accepted in        *)
(* document order, none left out, before any of the keyboard's; an unknown *)
(* element that is thrown leaves exactly the commands before it accepted.  *)
CommandNodes(last) == {node \in 1 .. last : document[node].name \in Command}

AcceptedUpTo(last) ==
  /\ Len(issued) >= Cardinality(CommandNodes(last))
  /\ \A node \in CommandNodes(last) :
       issued[Cardinality({n \in CommandNodes(last) : n <= node})] = document[node].name

ConfigInDocumentOrder ==
  LET parsed == IF children = <<>> THEN Len(document) ELSE Head(children) - 1
      file == IF Refused THEN 0 ELSE Len(document)
      OnlyUpTo(last) == AcceptedUpTo(last) /\ Len(issued) = Cardinality(CommandNodes(last))
  IN /\ directAt \in {"failed", "config", "crashed"} => issued = <<>>
     /\ directAt = "parse" => OnlyUpTo(parsed)
     /\ directAt = "terminated" =>
          OnlyUpTo(parsed) /\ \A node \in 1 .. parsed : ~Unknown(node)
     /\ directAt \in {"repeat", "keys", "shutdown", "exit"} =>
          /\ AcceptedUpTo(file)
          /\ \A i \in Cardinality(CommandNodes(file)) + 1 .. Len(issued) : issued[i] = "SV"

=============================================================================
