----------------------------- MODULE PstConvert -----------------------------
(***************************************************************************)
(* The converter (src/tools/pst_convert.cpp): from the arguments over the  *)
(* text of the input file, parsed as a list first and as one object if     *)
(* that throws (parseAny), to the call of the writer and the exit code.    *)
(* The writers are the other modules' subject: here writeM7Pst, writeM8Pst *)
(* or writeM9Pst succeeds, reports a failure or throws.                    *)
(***************************************************************************)
EXTENDS GraphJson

CONSTANT
    ArgumentCounts   \* values of argc to consider

VARIABLES
    phase,    \* where the call is
    kind,     \* argv[1]
    items,    \* the extracted objects
    exit,     \* the exit code; -1 while it runs
    folder    \* what has been asked of the writer; <<>> nothing

vars == <<jsonVars, phase, kind, items, exit, folder>>

Phases == {"main", "slurp", "list", "fallback", "single", "write", "exit"}

Known == {"mail", "contacts", "calendar"}

Extract(k, v) ==
    CASE k = "mail"     -> ExtractMessage(v)
      [] k = "contacts" -> ExtractContact(v)
      [] k = "calendar" -> ExtractEvent(v)

\* Name of the one folder, below the IPM subtree.
FolderName(k) ==
    CASE k = "mail" -> "Inbox" [] k = "contacts" -> "Contacts" [] k = "calendar" -> "Calendar"

Init ==
    /\ phase = "main" /\ kind \in Kinds
    /\ JsonInit(kind)
    /\ items = <<>> /\ exit = -1 /\ folder = <<>>

ExitWith(code) == phase' = "exit" /\ exit' = code

\* The number of arguments, then the kind.
Main ==
    /\ phase = "main"
    /\ \E argc \in ArgumentCounts :
          IF argc # 4 \/ kind \notin Known THEN ExitWith(2)
          ELSE phase' = "slurp" /\ UNCHANGED exit
    /\ UNCHANGED <<jsonVars, kind, items, folder>>

\* slurpFile throws when the input cannot be opened.
SlurpFile ==
    /\ phase = "slurp"
    /\ \/ phase' = "list" /\ UNCHANGED exit /\ BeginParse
       \/ ExitWith(1) /\ UNCHANGED jsonVars
    /\ UNCHANGED <<kind, items, folder>>

Parse ==
    /\ phase \in {"list", "single"} /\ ParseStep
    /\ UNCHANGED <<phase, kind, items, exit, folder>>

Parsed == phase \in {"list", "single"} /\ ~Parsing

\* The list in a value, if it has one: an array, or the envelope of one.
ListIn(v) ==
    IF v.type = "Array" THEN <<v.arr>>
    ELSE IF Member(v, "value", "Array") THEN <<v.obj["value"].arr>> ELSE <<>>

\* parseGraph...List: elements that are not objects are passed over.
ListParsed ==
    /\ Parsed /\ phase = "list"
    /\ IF value # Failure /\ ListIn(value) # <<>>
       THEN /\ phase' = "write"
            /\ items' = LET objs == SelectSeq(ListIn(value)[1], LAMBDA e : e.type = "Object")
                        IN  [i \in DOMAIN objs |-> Extract(kind, objs[i])]
       ELSE phase' = "fallback" /\ UNCHANGED items
    /\ UNCHANGED <<jsonVars, kind, exit, folder>>

\* mutant: what threw is tried again
RetryList ==
    /\ phase = "fallback" /\ phase' = "list" /\ BeginParse
    /\ UNCHANGED <<kind, items, exit, folder>>

\* Whatever the list form threw, the text is parsed again for one object.
FallBack ==
    /\ phase = "fallback" /\ phase' = "single" /\ BeginParse
    /\ UNCHANGED <<kind, items, exit, folder>>

SingleParsed ==
    /\ Parsed /\ phase = "single"
    /\ IF value # Failure /\ value.type = "Object"
       THEN phase' = "write" /\ items' = <<Extract(kind, value)>> /\ UNCHANGED exit
       ELSE ExitWith(1) /\ UNCHANGED items
    /\ UNCHANGED <<jsonVars, kind, folder>>

\* One folder with all items; a failure of the writer is an exit code.
Write ==
    /\ phase = "write"
    /\ folder' = <<[name |-> FolderName(kind), contents |-> items]>>
    /\ \/ ExitWith(0)
       \/ ExitWith(1)
    /\ UNCHANGED <<jsonVars, kind, items>>

Return == phase = "exit" /\ UNCHANGED vars

Step ==
    Main \/ SlurpFile \/ Parse \/ ListParsed \/ FallBack \/ SingleParsed \/ Write

Next == Step \/ Return

Spec == Init /\ [][Next]_vars

\* One thread that nothing waits for: while a step is possible, one is taken.
FairSpec == Spec /\ WF_vars(Step)

-----------------------------------------------------------------------------
(***************************************************************************)
(* Every call of the converter ends, whatever the text: the parser neither *)
(* stays where it is nor goes round, and parsing is tried twice at most.   *)
(***************************************************************************)
EveryCallEnds == <>(phase = "exit")
=============================================================================
