--------------------------- MODULE ForwardedProto ---------------------------
(***************************************************************************)
(* The postStart hook that inserts the forceHTTPS line into wp-config.php: *)
(* forwardedProtoPostStart in internal/resources/deployment.go.  Every     *)
(* replica of a site runs it, and all of them mount the same folder of the *)
(* shared volume.  Every command of the script is a step: the loop that    *)
(* waits for the file, the test with grep, the shell that opens the file   *)
(* sed writes to, sed, and mv.                                             *)
(*                                                                         *)
(* The entrypoint of the image generates the file at the same time: it     *)
(* redirects its output into wp-config.php, which is there and empty at    *)
(* once and then filled piece by piece.                                    *)
(*                                                                         *)
(* The folder maps two names to inodes; an inode stays the same when a     *)
(* name is moved and when it is written through an open descriptor.        *)
(***************************************************************************)
EXTENDS Naturals, Sequences, FiniteSets

CONSTANTS
    Pod,        \* pods of the site, of one Deployment after the other
    Replicas,   \* spec.replicas
    MaxStarts   \* bound: containers started in all

ASSUME ReplicasAssumption == IsFiniteSet(Pod) /\ Replicas \in Nat /\ MaxStarts \in Nat

VARIABLES
    config,   \* the inode of wp-config.php, or None
    temp,     \* the inode of wp-config.php.wpmgr, or None
    text,     \* text[i]: what is in inode i
    hook,     \* hook[p]: the command the hook of p runs next
    out,      \* out[p]: the inode the sed of p writes to, or None
    entry,    \* entry[p]: what the entrypoint of p does next
    fd,       \* fd[p]: the inode the entrypoint of p writes to, or None
    found,    \* for the properties: what the hooks have found when they had waited
    starts    \* containers started so far

files == <<config, temp, text>>
vars == <<files, hook, out, entry, fd, found, starts>>

None == 0

\* What was generated, whole or the beginning of it, with the line inserted that
\* many times; a file of no bytes; and one whose bytes are a mixture.
Generated(lines) == [is |-> "generated", lines |-> lines]
Partial(lines) == [is |-> "partial", lines |-> lines]
Empty == [is |-> "empty", lines |-> 0]
Mixed == [is |-> "mixed", lines |-> 0]

Text == {Generated(lines) : lines \in 0..MaxStarts}
            \union {Partial(lines) : lines \in 0..MaxStarts} \union {Empty, Mixed}

HasMarker(t) == t.lines > 0

Init == /\ config = None /\ temp = None /\ text = <<>>
        /\ hook = [p \in Pod |-> "down"]
        /\ out = [p \in Pod |-> None]
        /\ entry = [p \in Pod |-> "done"] /\ fd = [p \in Pod |-> None]
        /\ found = "nothing"
        /\ starts = 0

-----------------------------------------------------------------------------
(* Containers                                                               *)

Up == {p \in Pod : hook[p] # "down"}

\* The strategy of the Deployment is Recreate: no pod beyond spec.replicas.
Start(p) ==
    /\ hook[p] = "down" /\ Cardinality(Up) < Replicas
    /\ starts < MaxStarts
    /\ starts' = starts + 1
    /\ hook' = [hook EXCEPT ![p] = "wait"]
    /\ entry' = [entry EXCEPT ![p] = "look"]
    /\ UNCHANGED <<files, out, fd, found>>

\* The pod is deleted, evicted or fails its probe, at any moment.
Kill(p) ==
    /\ hook[p] # "down"
    /\ hook' = [hook EXCEPT ![p] = "down"]
    /\ out' = [out EXCEPT ![p] = None]
    /\ entry' = [entry EXCEPT ![p] = "done"]
    /\ fd' = [fd EXCEPT ![p] = None]
    /\ UNCHANGED <<files, found, starts>>

\* What is in a file when new is written to it from the start, without cutting
\* off what was there.
Overwritten(old, new) ==
    IF new = Empty THEN old
    ELSE IF \/ old = Empty
            \/ new.is = "generated" /\ old.is # "mixed" /\ old.lines <= new.lines
         THEN new
    ELSE IF new.is = "partial" /\ old.is # "mixed" /\ old.lines = new.lines
         THEN old
    ELSE Mixed

\* The entrypoint generates a file that is missing or empty.
Look(p) ==
    /\ entry[p] = "look"
    /\ entry' = [entry EXCEPT ![p] =
                    IF config # None /\ text[config] # Empty THEN "done" ELSE "open"]
    /\ UNCHANGED <<files, hook, out, fd, found, starts>>

\* Its output is redirected: the file is created when there is none, else cut to
\* no bytes.
OpenConfig(p) ==
    /\ entry[p] = "open"
    /\ \/ /\ config = None
          /\ config' = Len(text) + 1 /\ text' = Append(text, Empty)
       \/ /\ config # None
          /\ text' = [text EXCEPT ![config] = Empty] /\ UNCHANGED config
    /\ entry' = [entry EXCEPT ![p] = "begin"]
    /\ fd' = [fd EXCEPT ![p] = config']
    /\ UNCHANGED <<temp, hook, out, found, starts>>

\* The beginning of the text, with <?php, then the rest, which continues what
\* was there if that is what this entrypoint or one like it has written.
Begin(p) ==
    /\ entry[p] = "begin"
    /\ text' = [text EXCEPT ![fd[p]] = Overwritten(@, Partial(0))]
    /\ entry' = [entry EXCEPT ![p] = "finish"]
    /\ UNCHANGED <<config, temp, hook, out, fd, found, starts>>

Finish(p) ==
    /\ entry[p] = "finish"
    /\ text' = [text EXCEPT ![fd[p]] =
                    IF @ \in {Partial(0), Generated(0)} THEN Generated(0) ELSE Mixed]
    /\ entry' = [entry EXCEPT ![p] = "done"]
    /\ fd' = [fd EXCEPT ![p] = None]
    /\ UNCHANGED <<config, temp, hook, out, found, starts>>

-----------------------------------------------------------------------------
(* The hook                                                                 *)

Step(p, from, to) == hook[p] = from /\ hook' = [hook EXCEPT ![p] = to]

\* An entrypoint is about to write to wp-config.php.
Generating == \E p \in Pod : entry[p] \in {"open", "begin", "finish"}

\* The file is there, whatever is in it, or it is not after 60 seconds and the
\* hook ends.
Wait(p) ==
    /\ Step(p, "wait", IF config # None THEN "grep" ELSE "gave up")
    /\ found' = IF config = None THEN found
                ELSE IF found # "part" /\ text[config].is = "generated" /\ ~Generating
                THEN "whole" ELSE "part"
    /\ UNCHANGED <<files, out, entry, fd, starts>>

\* Broken: what is looked for is in every generated file.
Grep_BuiltIn(p) ==
    /\ Step(p, "grep", "done")
    /\ UNCHANGED <<files, out, entry, fd, found, starts>>

\* Broken: the line is inserted without looking for it.
Grep_Unguarded(p) ==
    /\ Step(p, "grep", "open")
    /\ UNCHANGED <<files, out, entry, fd, found, starts>>

Grep(p) ==
    /\ Step(p, "grep", IF HasMarker(text[config]) THEN "done" ELSE "open")
    /\ UNCHANGED <<files, out, entry, fd, found, starts>>

\* Broken: sed's output goes to the file itself.
OpenTemp_InPlace(p) ==
    /\ Step(p, "open", "sed")
    /\ out' = [out EXCEPT ![p] = config]
    /\ text' = [text EXCEPT ![config] = Empty]
    /\ UNCHANGED <<config, temp, entry, fd, found, starts>>

\* The shell opens wp-config.php.wpmgr: created when there is none, else cut to
\* no bytes.
OpenTemp(p) ==
    /\ Step(p, "open", "sed")
    /\ \/ /\ temp = None
          /\ temp' = Len(text) + 1 /\ text' = Append(text, Empty)
       \/ /\ temp # None
          /\ text' = [text EXCEPT ![temp] = Empty] /\ UNCHANGED temp
    /\ out' = [out EXCEPT ![p] = temp']
    /\ UNCHANGED <<config, entry, fd, found, starts>>

\* What sed makes of a file: nothing of nothing, else the line once more.
Inserted(t) == CASE t.is = "generated" -> Generated(t.lines + 1)
                 [] t.is = "partial"   -> Partial(t.lines + 1)
                 [] t.is = "empty"     -> Empty
                 [] t.is = "mixed"     -> Mixed

\* What can be in the file sed writes to.  When that is wp-config.php itself,
\* sed may read what it has just written.
Outcomes(p) ==
    {Overwritten(text[out[p]], Inserted(text[config]))}
        \union IF out[p] = config /\ text[config] # Empty THEN {Mixed} ELSE {}

\* sed opens wp-config.php by its name.
Sed(p) ==
    /\ Step(p, "sed", "mv")
    /\ \E t \in Outcomes(p) : text' = [text EXCEPT ![out[p]] = t]
    /\ UNCHANGED <<config, temp, out, entry, fd, found, starts>>

\* Broken: the file is linked to its new name and keeps the old one.
Move_Link(p) ==
    /\ Step(p, "mv", "done")
    /\ config' = IF temp = None THEN config ELSE temp
    /\ out' = [out EXCEPT ![p] = None]
    /\ UNCHANGED <<temp, text, entry, fd, found, starts>>

\* mv fails when another replica has moved the file away; the hook ends all the
\* same.
Move(p) ==
    /\ Step(p, "mv", "done")
    /\ IF temp = None THEN UNCHANGED <<config, temp>> ELSE config' = temp /\ temp' = None
    /\ out' = [out EXCEPT ![p] = None]
    /\ UNCHANGED <<text, entry, fd, found, starts>>

-----------------------------------------------------------------------------
Entrypoint(p) == Look(p) \/ OpenConfig(p) \/ Begin(p) \/ Finish(p)

Run(p) == Wait(p) \/ Grep(p) \/ OpenTemp(p) \/ Sed(p) \/ Move(p)

Next == \E p \in Pod : Start(p) \/ Kill(p) \/ Entrypoint(p) \/ Run(p)

Spec == Init /\ [][Next]_vars

-----------------------------------------------------------------------------
(* Safety                                                                   *)

Commands == {"down", "wait", "grep", "open", "sed", "mv", "done", "gave up"}

\* Every variable has its type, a hook has a file open exactly from its
\* redirection to mv, an entrypoint from its redirection to its end, and no file
\* has both names.
TypeOK ==
    /\ config \in 0..Len(text) /\ temp \in 0..Len(text)
    /\ text \in Seq(Text)
    /\ hook \in [Pod -> Commands]
    /\ out \in [Pod -> 0..Len(text)]
    /\ \A p \in Pod : out[p] # None <=> hook[p] \in {"sed", "mv"}
    /\ entry \in [Pod -> {"look", "open", "begin", "finish", "done"}]
    /\ fd \in [Pod -> 0..Len(text)]
    /\ \A p \in Pod : fd[p] # None <=> entry[p] \in {"begin", "finish"}
    /\ found \in {"nothing", "whole", "part"}
    /\ starts \in 0..MaxStarts
    /\ config = temp => config = None

\* No hook is between the test and mv, and no entrypoint generates the file.
Quiet == ~Generating /\ \A p \in Pod : hook[p] \notin {"open", "sed", "mv"}

\* Once the hooks are through, wp-config.php is a file that was generated, with
\* the line or without, wherever a container was killed, if no hook stopped
\* waiting at a file that was not yet whole (forwardedProtoPostStart, which
\* writes to a file of its own and moves it).
ConfigKept == Quiet /\ found = "whole" => text[config].is = "generated"

\* "(idempotently, guarded by the marker) inserts the snippet right after <?php":
\* never twice, also into a file that was not yet whole.
InsertedOnce == Quiet /\ config # None => text[config].lines <= 1

\* A hook that ends without having given up on the file leaves the line in it, if
\* none stopped waiting at a file that was not yet whole.
InsertedAtEnd ==
    \A p \in Pod : hook[p] = "done" /\ Quiet /\ found = "whole" => HasMarker(text[config])
=============================================================================
