--------------------------- MODULE AdaptiveParser ---------------------------
(***************************************************************************)
(* AdaptiveParser of adaptive_parser.go: goroutines register, select, save    *)
(* and load.  A selector is an object that the map points to; Select keeps    *)
(* the pointer it looked up and reads the object without the lock, while      *)
(* healing and learning look the name up again.  The process may die at any    *)
(* time; the files stay.                                                      *)
(*                                                                         *)
(* An element has a tag, an id, a class and a text, "" for none; a document   *)
(* is the sequence of its elements.                                          *)
(***************************************************************************)
EXTENDS Integers, FiniteSetsExt, SequencesExt

CONSTANTS
    Caller,
    MaySave,    \* the callers that save
    Name,
    Document,   \* documents given to Select
    CSS,        \* selectors given to Register, which compile
    Odd,        \* ids and classes that make no CSS selector as they are
    Cap,        \* 8 in the code: fingerprints of a selector
    MaxCalls,   \* bound on the calls of one caller
    MaxCrashes

Attributes == {"tag", "id", "class", "text"}

ASSUME ParserAssumption ==
    /\ MaySave \subseteq Caller
    /\ Document # {} /\ Document \subseteq Seq([Attributes -> STRING])
    /\ Name # {} /\ "broken" \notin Name     \* what Broken maps is no name
    /\ {Cap, MaxCalls} \subseteq Nat \ {0} /\ MaxCrashes \in Nat

VARIABLES
    selectors,
    file, tmp,      \* what path and path.tmp hold
    pc,
    name, doc,      \* the arguments of Select
    held,           \* its pointer: Live while the map still points to the
                    \* object, else what the object was when it was replaced
    node,           \* the element found
    opened,         \* where a saver's file is: "tmp", or "file" once renamed
    decoded,        \* what Load has read
    calls, crashes  \* history

callVars == <<pc, name, doc, held, node, opened, decoded>>
vars == <<selectors, file, tmp, callVars, calls, crashes>>

Element == UNION {ToSet(d) : d \in Document}
NoCSS == [tag |-> "", id |-> "", class |-> ""]
Unregistered == [css |-> NoCSS, prints |-> <<>>]
Live == [css |-> [NoCSS EXCEPT !.tag = "live"], prints |-> <<>>]
NoNode == [tag |-> "", id |-> "", class |-> "", text |-> ""]
\* A file that is missing, and one that holds no whole map.
Absent == [n \in {} |-> 0]
Broken == [n \in {"broken"} |-> 0]
Empty == [n \in Name |-> Unregistered]

PC == {"idle", "match", "similar", "heal", "learn", "encode", "rename", "swap"}

TypeOK ==
    /\ DOMAIN selectors = Name
    /\ \A n \in Name : Len(selectors[n].prints) <= Cap /\ ToSet(selectors[n].prints) \subseteq Element
    /\ pc \in [Caller -> PC]
    /\ name \in [Caller -> Name]
    /\ doc \in [Caller -> Document]
    /\ node \in [Caller -> Element \cup {NoNode}]
    /\ opened \in [Caller -> {"tmp", "file"}]
    /\ calls \in [Caller -> 0..MaxCalls] /\ crashes \in 0..MaxCrashes

AnyDocument == CHOOSE d \in Document : TRUE
AnyName == CHOOSE n \in Name : TRUE

Fresh(x) == [c \in Caller |-> x]
Init ==
    /\ selectors = Empty
    /\ file = Absent /\ tmp = Absent
    /\ pc = Fresh("idle") /\ name = Fresh(AnyName) /\ doc = Fresh(AnyDocument)
    /\ held = Fresh(Live) /\ node = Fresh(NoNode)
    /\ opened = Fresh("tmp") /\ decoded = Fresh(Absent)
    /\ calls = Fresh(0) /\ crashes = 0

----------------------------------------------------------------------------
\* Elements, selectors and fingerprints.  A fingerprint is what fingerprintForNode
\* keeps of an element, here all of it.

Matches(css, e) ==
    /\ css.tag = e.tag
    /\ css.id \in {"", e.id}
    /\ css.class \in {"", e.class}
Compiles(css) == {css.id, css.class} \cap Odd = {}
\* cascadia.Query: the first element that matches.
Query(d, css) ==
    LET hits == {i \in DOMAIN d : Matches(css, d[i])}
    IN IF hits = {} THEN NoNode ELSE d[Min(hits)]

\* scoreFingerprint, in hundredths.
Agree(a, b, weight) == IF a # "" /\ a = b THEN weight ELSE 0
Score(e, print) ==
    Agree(e.tag, print.tag, 35) + Agree(e.id, print.id, 35)
      + Agree(e.class, print.class, 20) + Agree(e.text, print.text, 10)
BestScore(e, prints) == Max({0} \cup {Score(e, prints[i]) : i \in DOMAIN prints})
\* findSimilar: the first of the elements with the best score, if it is enough.
TooFar(best) == best <= 55
NotEnough(best) == best < 55
FindSimilar(d, prints) ==
    LET best == Max({0} \cup {BestScore(d[i], prints) : i \in DOMAIN d})
    IN IF NotEnough(best) THEN NoNode
       ELSE d[Min({i \in DOMAIN d : BestScore(d[i], prints) = best})]

CssCandidate(e) ==
    [tag |-> e.tag, id |-> e.id, class |-> IF e.id = "" THEN e.class ELSE ""]

LearntAll(prints, e) == Append(prints, e)
Learnt(prints, e) ==
    Append(IF Len(prints) >= Cap THEN Tail(prints) ELSE prints, e)

----------------------------------------------------------------------------
At(c, s) == pc[c] = s
Goto(c, s) == pc' = [pc EXCEPT ![c] = s]
Return(c) ==
    /\ Goto(c, "idle")
    /\ name' = [name EXCEPT ![c] = AnyName]
    /\ doc' = [doc EXCEPT ![c] = AnyDocument]
    /\ held' = [held EXCEPT ![c] = Live]
    /\ node' = [node EXCEPT ![c] = NoNode]
    /\ opened' = [opened EXCEPT ![c] = "tmp"]
    /\ decoded' = [decoded EXCEPT ![c] = Absent]
Called(c) == At(c, "idle") /\ calls[c] < MaxCalls /\ calls' = [calls EXCEPT ![c] = @ + 1]
             /\ UNCHANGED crashes
Continues == UNCHANGED <<calls, crashes>>

\* Save holds the read lock from its start to its end, so writers wait for it;
\* savers do not wait for each other.
Unlocked == TRUE
LockedBySelect == \A c \in Caller : pc[c] \in {"idle", "swap"}
CanWrite == \A c \in Caller : pc[c] \notin {"encode", "rename"}

\* The objects of the names in gone are replaced; who points to one keeps it.
Keep(gone) ==
    held' = [c \in Caller |-> IF pc[c] \in {"match", "similar", "heal"} /\ name[c] \in gone /\ held[c] = Live
                                THEN selectors[name[c]] ELSE held[c]]
Object(c) == IF held[c] = Live THEN selectors[name[c]] ELSE held[c]

Register(c) ==
    /\ Called(c) /\ CanWrite
    /\ \E n \in Name, css \in CSS :
          /\ selectors' = [selectors EXCEPT ![n] = [css |-> css, prints |-> <<>>]]
          /\ Keep({n})
    /\ UNCHANGED <<file, tmp, pc, name, doc, node, opened, decoded>>

----------------------------------------------------------------------------
\* Select.

Select(c) ==
    /\ Called(c)
    /\ \E n \in Name, d \in Document :
          /\ selectors[n] # Unregistered
          /\ name' = [name EXCEPT ![c] = n]
          /\ doc' = [doc EXCEPT ![c] = d]
    /\ Goto(c, "match")
    /\ UNCHANGED <<selectors, file, tmp, held, node, opened, decoded>>

\* PrimaryCSS is read without the lock: while another call writes it, the
\* pointer of one string may come with the length of the other, which does not
\* compile.
Torn(c) == held[c] = Live /\ \E d \in Caller \ {c} : pc[d] = "heal" /\ name[d] = name[c]
Match(c) ==
    /\ At(c, "match") /\ Compiles(Object(c).css)
    /\ LET e == Query(doc[c], Object(c).css)
       IN /\ node' = [node EXCEPT ![c] = e]
          /\ Goto(c, IF e = NoNode THEN "similar" ELSE "learn")
    /\ UNCHANGED <<selectors, file, tmp, name, doc, held, opened, decoded>> /\ Continues
CompileError(c) ==
    /\ At(c, "match")
    /\ ~Compiles(Object(c).css) \/ Torn(c)
    /\ Return(c)
    /\ UNCHANGED <<selectors, file, tmp>> /\ Continues

\* Fingerprints is read without the lock too; a torn slice header is the old
\* list or the new one, or ends in a garbage fingerprint that nothing agrees with.
Similar(c) ==
    /\ At(c, "similar")
    /\ LET e == FindSimilar(doc[c], Object(c).prints)
       IN IF e = NoNode THEN Return(c)
          ELSE /\ node' = [node EXCEPT ![c] = e]
               /\ Goto(c, "heal")
               /\ UNCHANGED <<name, doc, held, opened, decoded>>
    /\ UNCHANGED <<selectors, file, tmp>> /\ Continues

Heal(c) ==
    /\ At(c, "heal") /\ CanWrite
    /\ selectors' = IF selectors[name[c]] = Unregistered THEN selectors
                    ELSE [selectors EXCEPT ![name[c]].css = CssCandidate(node[c])]
    /\ Goto(c, "learn")
    /\ held' = [held EXCEPT ![c] = Live]
    /\ UNCHANGED <<file, tmp, name, doc, node, opened, decoded>> /\ Continues
Learn(c) ==
    /\ At(c, "learn") /\ CanWrite
    /\ selectors' = IF selectors[name[c]] = Unregistered THEN selectors
                    ELSE [selectors EXCEPT ![name[c]].prints = Learnt(@, node[c])]
    /\ Return(c)
    /\ UNCHANGED <<file, tmp>> /\ Continues

----------------------------------------------------------------------------
\* Save and Load.  Opening, encoding and renaming may fail.  A file that a saver
\* has open moves with the rename of another.

SaveInPlace(c) == file' = Broken /\ opened' = [opened EXCEPT ![c] = "file"] /\ UNCHANGED tmp
SaveAside(c) == tmp' = Broken /\ UNCHANGED <<file, opened>>
Save(c) ==
    /\ Called(c) /\ c \in MaySave
    /\ SaveAside(c)
    /\ Goto(c, "encode")
    /\ UNCHANGED <<selectors, name, doc, held, node, decoded>>
Encode(c) ==
    /\ At(c, "encode")
    /\ IF opened[c] = "tmp" THEN tmp' = selectors /\ UNCHANGED file
       ELSE file' = selectors /\ UNCHANGED tmp
    /\ Goto(c, "rename")
    /\ UNCHANGED <<selectors, name, doc, held, node, opened, decoded>> /\ Continues
EncodeFails(c) ==
    /\ At(c, "encode")
    /\ Return(c)
    /\ UNCHANGED <<selectors, file, tmp>> /\ Continues
Rename(c) ==
    /\ At(c, "rename")
    /\ \/ /\ tmp # Absent
          /\ file' = tmp /\ tmp' = Absent
          /\ opened' = [d \in Caller |-> IF d # c /\ pc[d] \in {"encode", "rename"} THEN "file" ELSE "tmp"]
       \/ UNCHANGED <<file, tmp>> /\ opened' = [opened EXCEPT ![c] = "tmp"]
    /\ Goto(c, "idle")
    /\ UNCHANGED <<selectors, name, doc, held, node, decoded>> /\ Continues

Load(c) ==
    /\ Called(c)
    /\ file \notin {Absent, Broken}
    /\ decoded' = [decoded EXCEPT ![c] = file]
    /\ Goto(c, "swap")
    /\ UNCHANGED <<selectors, file, tmp, name, doc, held, node, opened>>
Swap(c) ==
    /\ At(c, "swap") /\ CanWrite
    /\ selectors' = decoded[c]
    /\ Keep(Name)
    /\ decoded' = [decoded EXCEPT ![c] = Absent]
    /\ Goto(c, "idle")
    /\ UNCHANGED <<file, tmp, name, doc, node, opened>> /\ Continues

Crash ==
    /\ crashes < MaxCrashes /\ crashes' = crashes + 1
    /\ selectors' = Empty
    /\ pc' = Fresh("idle") /\ name' = Fresh(AnyName) /\ doc' = Fresh(AnyDocument)
    /\ held' = Fresh(Live) /\ node' = Fresh(NoNode)
    /\ opened' = Fresh("tmp") /\ decoded' = Fresh(Absent)
    /\ UNCHANGED <<file, tmp, calls>>

Begin(c) == Register(c) \/ Select(c) \/ Save(c) \/ Load(c)
Step(c) ==
    \/ Match(c) \/ CompileError(c) \/ Similar(c) \/ Heal(c) \/ Learn(c)
    \/ Encode(c) \/ EncodeFails(c) \/ Rename(c)
    \/ Swap(c)
Next == (\E c \in Caller : Begin(c) \/ Step(c)) \/ Crash

Spec == Init /\ [][Next]_vars

\* A goroutine that can run does; a writer gets the lock when no reader has it.
Fairness == \A c \in Caller : WF_vars(Step(c))
FairSpec == Spec /\ Fairness

----------------------------------------------------------------------------
(* Safety. *)

\* Whenever the process dies and whoever registers, selects or loads meanwhile:
\* with one saver at a time the file is missing or whole, and what a save puts
\* there is the map as it is then.
FileWhole == file # Broken
SavedIsCurrent == \A c \in Caller : At(c, "rename") => tmp = selectors

\* What healing is for: an element that agrees with a remembered one in two of
\* tag, id and class is found, and none that agrees in less.
Alike(e, print) ==
    Cardinality({x \in {"tag", "id", "class"} : e[x] # "" /\ e[x] = print[x]}) >= 2
Recognised(d, prints) == {e \in ToSet(d) : \E print \in ToSet(prints) : Alike(e, print)}
HealsTheAlike ==
    [][\A c \in Caller :
          At(c, "similar") /\ pc'[c] # "similar" /\ crashes' = crashes =>
             IF Recognised(doc[c], Object(c).prints) = {} THEN pc'[c] = "idle"
             ELSE node'[c] \in Recognised(doc[c], Object(c).prints)]_vars

(* Liveness, under FairSpec. *)

\* Every call returns, also those that wait for a save which fails.
AllReturn == \A c \in Caller : []<>(pc[c] = "idle")
=============================================================================
