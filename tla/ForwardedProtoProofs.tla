------------------------- MODULE ForwardedProtoProofs -------------------------
(***************************************************************************)
(* Theorems about ForwardedProto for sites with at most one replica, for   *)
(* any number of starts and kills, whatever the hook finds of the file     *)
(* that the entrypoint is writing.  With two replicas they do not hold.    *)
(***************************************************************************)
EXTENDS ForwardedProto, FiniteSetTheorems, SequenceTheorems, TLAPS

OneReplica == Replicas <= 1

\* With one replica and the strategy Recreate, one hook runs at a time.
OneUp == \A p, q \in Pod : hook[p] # "down" /\ hook[q] # "down" => p = q

Whole == {Generated(0), Generated(1)}

\* wp-config.php is never a mixture, and whole once a hook has found it whole.
FileInOrder ==
    /\ config # None => text[config] \in Whole \union {Empty, Partial(0), Partial(1)}
    /\ found = "whole" => config # None /\ text[config] \in Whole

\* What an entrypoint relies on: the file it opens is empty, the one it has open is
\* as it left it, though a hook may have moved another to its name, and that one
\* is not whole.
EntryOnTrack ==
    \A p \in Pod :
        /\ entry[p] # "done" => hook[p] # "down"
        /\ entry[p] = "open" /\ config # None => text[config] = Empty
        /\ entry[p] \in {"begin", "finish"}
              => config # None /\ fd[p] # temp /\ text[config] \notin Whole
        /\ entry[p] = "begin" => text[fd[p]] = Empty
        /\ entry[p] = "finish" => text[fd[p]] = Partial(0)

\* What sed made of wp-config.php, which may have grown since.
Copied(t) ==
    /\ t \in {Empty, Partial(1), Generated(1)}
    /\ text[config] = Empty => t = Empty
    /\ t \in Whole => text[config] \in Whole
    /\ found = "whole" => t = Generated(1)

\* What a hook relies on before each of its commands.
HookOnTrack ==
    \A p \in Pod :
        /\ hook[p] # "down" => starts > 0
        /\ hook[p] \in {"grep", "open", "sed", "mv", "done"} => config # None
        /\ hook[p] \in {"open", "sed"} => ~HasMarker(text[config])
        /\ hook[p] \in {"sed", "mv"} => out[p] = temp
        /\ hook[p] = "sed" => text[temp] = Empty
        /\ hook[p] = "mv" => Copied(text[temp])
        /\ hook[p] = "done" /\ found = "whole" => text[config] = Generated(1)

ProtoInv == OneUp /\ FileInOrder /\ EntryOnTrack /\ HookOnTrack

-----------------------------------------------------------------------------
(* Texts and inodes                                                         *)

LEMMA Texts ==
    /\ Generated(0) \in Text /\ Partial(0) \in Text /\ Empty \in Text
    /\ MaxStarts > 0 => Generated(1) \in Text /\ Partial(1) \in Text
    /\ Generated(0) # Generated(1) /\ Partial(0) # Partial(1)
    /\ Empty \notin Whole \union {Partial(0), Partial(1)}
    /\ Partial(0) \notin Whole /\ Partial(1) \notin Whole
    /\ ~HasMarker(Generated(0)) /\ ~HasMarker(Partial(0)) /\ ~HasMarker(Empty)
    /\ HasMarker(Generated(1)) /\ HasMarker(Partial(1))
    /\ \A t \in Whole : t.is = "generated"
    /\ \A t \in {Empty, Partial(0), Partial(1)} : t.is # "generated"
<1>1. MaxStarts \in Nat
  BY ReplicasAssumption
<1>2. 0 \in 0..MaxStarts /\ (MaxStarts > 0 => 1 \in 0..MaxStarts)
  BY <1>1
<1>3. /\ Generated(0) \in Text /\ Partial(0) \in Text /\ Empty \in Text
      /\ MaxStarts > 0 => Generated(1) \in Text /\ Partial(1) \in Text
  BY <1>2 DEF Text
<1>4. /\ Generated(0).is = "generated" /\ Generated(0).lines = 0
      /\ Generated(1).is = "generated" /\ Generated(1).lines = 1
      /\ Partial(0).is = "partial" /\ Partial(0).lines = 0
      /\ Partial(1).is = "partial" /\ Partial(1).lines = 1
      /\ Empty.is = "empty" /\ Empty.lines = 0
  BY DEF Generated, Partial, Empty
<1> QED
  BY <1>3, <1>4 DEF HasMarker, Whole

\* What sed and the entrypoint write to an empty file.
LEMMA Writes ==
    /\ Inserted(Generated(0)) = Generated(1) /\ Inserted(Partial(0)) = Partial(1)
    /\ Inserted(Empty) = Empty
    /\ \A t \in {Empty, Partial(0), Partial(1), Generated(1)} : Overwritten(Empty, t) = t
<1>1. /\ Generated(0).is = "generated" /\ Generated(0).lines = 0
      /\ Partial(0).is = "partial" /\ Partial(0).lines = 0
      /\ Empty.is = "empty"
  BY DEF Generated, Partial, Empty
<1>2. Inserted(Generated(0)) = Generated(1)
  BY <1>1 DEF Inserted
<1>3. Inserted(Partial(0)) = Partial(1)
  BY <1>1 DEF Inserted
<1>4. Inserted(Empty) = Empty
  BY <1>1 DEF Inserted
<1>5. ASSUME NEW t \in {Empty, Partial(0), Partial(1), Generated(1)}
      PROVE  Overwritten(Empty, t) = t
  BY DEF Overwritten
<1> QED
  BY <1>2, <1>3, <1>4, <1>5

\* A new inode, and an inode that is written again.
LEMMA Inodes ==
    ASSUME TypeOK, NEW t \in Text
    PROVE  /\ Len(text) \in Nat
           /\ Append(text, t) \in Seq(Text) /\ Len(Append(text, t)) = Len(text) + 1
           /\ Append(text, t)[Len(text) + 1] = t
           /\ \A i \in 1..Len(text) : Append(text, t)[i] = text[i]
           /\ \A i \in 1..Len(text) :
                LET new == [text EXCEPT ![i] = t]
                IN  /\ new \in Seq(Text) /\ Len(new) = Len(text)
                    /\ \A j \in 1..Len(text) : new[j] = IF j = i THEN t ELSE text[j]
<1>1. text \in Seq(Text)
  BY DEF TypeOK
<1> QED
  BY <1>1, LenProperties, AppendProperties, ExceptSeq

\* No hook is up when one is started.
LEMMA NoneUp ==
    ASSUME OneReplica, Cardinality(Up) < Replicas
    PROVE  Up = {}
<1>1. IsFiniteSet(Up)
  BY ReplicasAssumption, FS_Subset DEF Up
<1>2. Cardinality(Up) \in Nat
  BY <1>1, FS_CardinalityType
<1>3. Cardinality(Up) = 0
  BY <1>2, ReplicasAssumption DEF OneReplica
<1> QED
  BY <1>1, <1>3, FS_EmptySet

-----------------------------------------------------------------------------
(* Steps                                                                    *)

LEMMA Initially == Init => TypeOK /\ ProtoInv
<1> SUFFICES ASSUME Init PROVE TypeOK /\ ProtoInv
  OBVIOUS
<1>1. text \in Seq(Text) /\ Len(text) = 0
  BY EmptySeq DEF Init
<1>2. TypeOK
  BY <1>1, ReplicasAssumption DEF Init, TypeOK, None, Commands
<1>3. ProtoInv
  BY DEF Init, ProtoInv, OneUp, FileInOrder, EntryOnTrack, HookOnTrack
<1> QED
  BY <1>2, <1>3

LEMMA StartSafe ==
    ASSUME OneReplica, TypeOK, ProtoInv, NEW p \in Pod, Start(p)
    PROVE  TypeOK' /\ ProtoInv'
<1>1. \A q \in Pod : hook[q] = "down"
  BY NoneUp DEF Start, Up
<1>2. \A q \in Pod : entry[q] = "done"
  BY <1>1 DEF ProtoInv, EntryOnTrack
<1>3. TypeOK'
  <2>1. hook' \in [Pod -> Commands] /\ \A q \in Pod : hook'[q] = IF q = p THEN "wait" ELSE hook[q]
    BY DEF Start, TypeOK, Commands
  <2>2. \A q \in Pod : out'[q] # None <=> hook'[q] \in {"sed", "mv"}
    BY <2>1 DEF Start, TypeOK
  <2>3. /\ entry' \in [Pod -> {"look", "open", "begin", "finish", "done"}]
        /\ \A q \in Pod : fd'[q] # None <=> entry'[q] \in {"begin", "finish"}
    BY <1>2 DEF Start, TypeOK
  <2>4. starts' \in 0..MaxStarts
    BY ReplicasAssumption DEF Start, TypeOK
  <2> QED
    BY <2>1, <2>2, <2>3, <2>4 DEF Start, files, TypeOK
<1>4. \A q \in Pod : hook'[q] = IF q = p THEN "wait" ELSE "down"
  BY <1>1 DEF Start, TypeOK
<1>5. starts' > 0
  BY DEF Start, TypeOK
<1>6. OneUp' /\ FileInOrder'
  BY <1>4 DEF Start, files, ProtoInv, OneUp, FileInOrder
<1>7. HookOnTrack'
  BY <1>4, <1>5 DEF HookOnTrack
<1>8. \A q \in Pod : entry'[q] = IF q = p THEN "look" ELSE "done"
  BY <1>2 DEF Start, TypeOK
<1>9. EntryOnTrack'
  BY <1>4, <1>8 DEF EntryOnTrack
<1> QED
  BY <1>3, <1>6, <1>7, <1>9 DEF ProtoInv

LEMMA KillSafe ==
    ASSUME TypeOK, ProtoInv, NEW p \in Pod, Kill(p)
    PROVE  TypeOK' /\ ProtoInv'
<1>1. Len(text) \in Nat
  BY Inodes, Texts
<1>2. TypeOK'
  <2> DEFINE inode == 0..Len(text)
  <2>1. hook' \in [Pod -> Commands]
    BY DEF Kill, TypeOK, Commands
  <2>2. out' \in [Pod -> inode]
    <3>1. None \in inode /\ out \in [Pod -> inode] /\ out' = [out EXCEPT ![p] = None]
      BY <1>1 DEF Kill, TypeOK, None
    <3> HIDE DEF inode
    <3> QED
      BY <3>1
  <2>3. \A q \in Pod : out'[q] # None <=> hook'[q] \in {"sed", "mv"}
    BY DEF Kill, TypeOK
  <2>4. fd' \in [Pod -> inode]
    <3>1. None \in inode /\ fd \in [Pod -> inode] /\ fd' = [fd EXCEPT ![p] = None]
      BY <1>1 DEF Kill, TypeOK, None
    <3> HIDE DEF inode
    <3> QED
      BY <3>1
  <2>5. /\ entry' \in [Pod -> {"look", "open", "begin", "finish", "done"}]
        /\ \A q \in Pod : fd'[q] # None <=> entry'[q] \in {"begin", "finish"}
    BY DEF Kill, TypeOK
  <2> QED
    BY <2>1, <2>2, <2>3, <2>4, <2>5 DEF Kill, files, TypeOK
<1>3. \A q \in Pod : /\ hook'[q] = IF q = p THEN "down" ELSE hook[q]
                     /\ entry'[q] = IF q = p THEN "done" ELSE entry[q]
                     /\ q # p => out'[q] = out[q] /\ fd'[q] = fd[q]
  BY DEF Kill, TypeOK
<1>4. OneUp' /\ FileInOrder'
  BY <1>3 DEF Kill, files, ProtoInv, OneUp, FileInOrder
<1>5. EntryOnTrack'
  BY <1>3 DEF Kill, files, ProtoInv, EntryOnTrack
<1>6. HookOnTrack'
  <2>1. UNCHANGED <<config, temp, text, found, starts>>
    BY DEF Kill, files
  <2> QED
    BY <1>3, <2>1 DEF ProtoInv, HookOnTrack, Copied
<1> QED
  BY <1>2, <1>4, <1>5, <1>6 DEF ProtoInv

\* Everything but p is down while p is up.
LEMMA Alone ==
    ASSUME ProtoInv, NEW p \in Pod, hook[p] # "down"
    PROVE  \A q \in Pod : q # p => hook[q] = "down" /\ entry[q] = "done"
  BY DEF ProtoInv, OneUp, EntryOnTrack

\* What the step of one entrypoint does to what is up: it stays up.
LEMMA EntryStep ==
    ASSUME TypeOK, ProtoInv, NEW p \in Pod, entry[p] # "done", hook' = hook,
           NEW next \in {"look", "open", "begin", "finish", "done"},
           entry' = [entry EXCEPT ![p] = next]
    PROVE  /\ hook[p] # "down" /\ OneUp'
           /\ entry' \in [Pod -> {"look", "open", "begin", "finish", "done"}]
           /\ entry'[p] = next
           /\ \A q \in Pod : q # p => hook[q] = "down" /\ entry'[q] = "done"
<1>1. hook[p] # "down"
  BY DEF ProtoInv, EntryOnTrack
<1>2. \A q \in Pod : entry'[q] = IF q = p THEN next ELSE entry[q]
  BY DEF TypeOK
<1>3. entry' \in [Pod -> {"look", "open", "begin", "finish", "done"}]
  BY DEF TypeOK
<1>4. \A q \in Pod : q # p => hook[q] = "down" /\ entry[q] = "done"
  BY <1>1, Alone
<1> QED
  BY <1>1, <1>2, <1>3, <1>4 DEF ProtoInv, OneUp

LEMMA LookSafe ==
    ASSUME TypeOK, ProtoInv, NEW p \in Pod, Look(p)
    PROVE  TypeOK' /\ ProtoInv'
<1> DEFINE next == IF config # None /\ text[config] # Empty THEN "done" ELSE "open"
<1>1. /\ entry[p] = "look" /\ entry' = [entry EXCEPT ![p] = next]
      /\ UNCHANGED <<config, temp, text, hook, out, fd, found, starts>>
  BY DEF Look, files
<1>2. next = "done" \/ (next = "open" /\ (config # None => text[config] = Empty))
  OBVIOUS
<1> HIDE DEF next
<1>3. /\ hook[p] # "down" /\ OneUp' /\ entry'[p] = next
      /\ entry' \in [Pod -> {"look", "open", "begin", "finish", "done"}]
      /\ \A q \in Pod : q # p => hook[q] = "down" /\ entry'[q] = "done"
  BY <1>1, <1>2, EntryStep
<1>4. \A q \in Pod : fd'[q] # None <=> entry'[q] \in {"begin", "finish"}
  BY <1>1, <1>2, <1>3, Alone DEF TypeOK
<1>5. TypeOK'
  BY <1>1, <1>3, <1>4 DEF TypeOK
<1>6. EntryOnTrack'
  BY <1>1, <1>2, <1>3 DEF EntryOnTrack
<1>7. FileInOrder' /\ HookOnTrack'
  BY <1>1 DEF ProtoInv, FileInOrder, HookOnTrack, Copied
<1> QED
  BY <1>3, <1>5, <1>6, <1>7 DEF ProtoInv

LEMMA OpenConfigSafe ==
    ASSUME TypeOK, ProtoInv, NEW p \in Pod, OpenConfig(p)
    PROVE  TypeOK' /\ ProtoInv'
<1>1. /\ entry[p] = "open" /\ entry' = [entry EXCEPT ![p] = "begin"]
      /\ fd' = [fd EXCEPT ![p] = config'] /\ UNCHANGED <<temp, hook, out, found, starts>>
  BY DEF OpenConfig
<1>2. /\ hook[p] # "down" /\ OneUp' /\ entry'[p] = "begin"
      /\ entry' \in [Pod -> {"look", "open", "begin", "finish", "done"}]
      /\ \A q \in Pod : q # p => hook[q] = "down" /\ entry'[q] = "done"
  BY <1>1, EntryStep
<1>3. Len(text) \in Nat /\ temp \in 0..Len(text)
  BY Inodes, Texts DEF TypeOK
\* The file that is opened is a new one, or it was empty.
<1>4. /\ text' \in Seq(Text) /\ Len(text') \in Nat /\ Len(text') >= Len(text)
      /\ config' \in 1..Len(text') /\ config' # temp /\ text'[config'] = Empty
      /\ temp # None => text'[temp] = text[temp]
      /\ config # None => config' = config /\ text'[config] = text[config]
  <2>1. CASE config = None
    <3>1. config' = Len(text) + 1 /\ text' = Append(text, Empty)
      BY <2>1 DEF OpenConfig
    <3>2. temp # None => temp \in 1..Len(text)
      BY <1>3 DEF None
    <3> QED
      BY <1>3, <2>1, <3>1, <3>2, Inodes, Texts
  <2>2. CASE config # None
    <3>1. text' = [text EXCEPT ![config] = Empty] /\ config' = config
      BY <2>2 DEF OpenConfig
    <3>2. config \in 1..Len(text) /\ temp # config /\ (temp # None => temp \in 1..Len(text))
      BY <1>3, <2>2 DEF TypeOK, None
    <3>3. text[config] = Empty
      BY <1>1, <2>2 DEF ProtoInv, EntryOnTrack
    <3> QED
      BY <1>3, <2>2, <3>1, <3>2, <3>3, Inodes, Texts
  <2> QED
    BY <2>1, <2>2
<1>5. \A q \in Pod : fd'[q] = IF q = p THEN config' ELSE fd[q]
  BY <1>1 DEF TypeOK
<1>6. fd' \in [Pod -> 0..Len(text')]
  BY <1>1, <1>3, <1>4 DEF TypeOK
<1>7. \A q \in Pod : fd'[q] # None <=> entry'[q] \in {"begin", "finish"}
  <2> TAKE q \in Pod
  <2>1. CASE q = p
    BY <1>2, <1>4, <1>5, <2>1 DEF None
  <2>2. CASE q # p
    <3>1. fd'[q] = fd[q] /\ entry[q] = "done" /\ entry'[q] = "done"
      BY <1>2, <1>5, <2>2, Alone
    <3>2. fd[q] # None <=> entry[q] \in {"begin", "finish"}
      BY DEF TypeOK
    <3> QED
      BY <3>1, <3>2
  <2> QED
    BY <2>1, <2>2
<1>8. out' \in [Pod -> 0..Len(text')]
  BY <1>1, <1>3, <1>4 DEF TypeOK
<1>9. TypeOK'
  BY <1>1, <1>2, <1>3, <1>4, <1>6, <1>7, <1>8 DEF TypeOK, None
<1>10. found # "whole"
  BY <1>1, Texts DEF ProtoInv, EntryOnTrack, FileInOrder
<1>11. FileInOrder'
  BY <1>1, <1>4, <1>10 DEF FileInOrder
<1>12. EntryOnTrack'
  <2>1. /\ config' # None /\ fd'[p] = config' /\ fd'[p] # temp'
        /\ text'[config'] = Empty /\ Empty \notin Whole /\ hook'[p] # "down"
    BY <1>1, <1>2, <1>4, <1>5, Texts DEF None
  <2> QED
    BY <1>2, <2>1 DEF EntryOnTrack
<1>13. HookOnTrack'
  <2>1. config = None => hook[p] \notin {"grep", "open", "sed", "mv", "done"}
    BY DEF ProtoInv, HookOnTrack
  <2>2. hook[p] \in {"sed", "mv"} => temp # None
    BY DEF ProtoInv, HookOnTrack, TypeOK
  <2> QED
    BY <1>1, <1>2, <1>4, <1>10, <2>1, <2>2 DEF ProtoInv, HookOnTrack, Copied, None
<1> QED
  BY <1>2, <1>9, <1>11, <1>12, <1>13 DEF ProtoInv

\* The inode the entrypoint writes to may have the name wp-config.php, and if a
\* hook has one open it is another.
LEMMA Filling ==
    ASSUME TypeOK, ProtoInv, NEW p \in Pod, entry[p] \in {"begin", "finish"},
           NEW t \in Text, text' = [text EXCEPT ![fd[p]] = t]
    PROVE  /\ Len(text) \in Nat /\ text' \in Seq(Text) /\ Len(text') = Len(text)
           /\ config # None /\ text[config] \notin Whole /\ found # "whole"
           /\ text'[config] = IF config = fd[p] THEN t ELSE text[config]
           /\ temp # None => text'[temp] = text[temp]
           /\ text'[fd[p]] = t
<1>1. config # None /\ fd[p] # temp /\ text[config] \notin Whole /\ found # "whole"
  BY DEF ProtoInv, EntryOnTrack, FileInOrder
<1>2. Len(text) \in Nat
  BY Inodes, Texts
<1>3. fd[p] \in 1..Len(text) /\ config \in 1..Len(text) /\ (temp # None => temp \in 1..Len(text))
  BY <1>1, <1>2 DEF TypeOK, None
<1> QED
  BY <1>1, <1>2, <1>3, Inodes

LEMMA BeginSafe ==
    ASSUME TypeOK, ProtoInv, NEW p \in Pod, Begin(p)
    PROVE  TypeOK' /\ ProtoInv'
<1>1. /\ entry[p] = "begin" /\ entry' = [entry EXCEPT ![p] = "finish"]
      /\ UNCHANGED <<config, temp, hook, out, fd, found, starts>>
  BY DEF Begin
<1>2. /\ hook[p] # "down" /\ OneUp' /\ entry'[p] = "finish"
      /\ entry' \in [Pod -> {"look", "open", "begin", "finish", "done"}]
      /\ \A q \in Pod : q # p => hook[q] = "down" /\ entry'[q] = "done"
  BY <1>1, EntryStep
<1>3. text[fd[p]] = Empty /\ fd[p] # temp
  BY <1>1 DEF ProtoInv, EntryOnTrack
<1>4. text' = [text EXCEPT ![fd[p]] = Partial(0)] /\ Partial(0) \in Text
  BY <1>3, Writes, Texts DEF Begin
<1>5. /\ text' \in Seq(Text) /\ Len(text') = Len(text)
      /\ config # None /\ text[config] \notin Whole /\ found # "whole"
      /\ text'[config] = IF config = fd[p] THEN Partial(0) ELSE text[config]
      /\ temp # None => text'[temp] = text[temp]
      /\ text'[fd[p]] = Partial(0)
  BY <1>1, <1>4, Filling
<1>6. \A q \in Pod : fd'[q] # None <=> entry'[q] \in {"begin", "finish"}
  BY <1>1, <1>2, Alone DEF TypeOK
<1>7. TypeOK'
  BY <1>1, <1>2, <1>5, <1>6 DEF TypeOK
<1>8. FileInOrder'
  BY <1>1, <1>5 DEF ProtoInv, FileInOrder
<1>9. EntryOnTrack'
  BY <1>1, <1>2, <1>3, <1>5, Texts DEF EntryOnTrack
<1>10. HookOnTrack'
  <2>1. hook[p] \in {"sed", "mv"} => temp # None
    BY DEF ProtoInv, HookOnTrack, TypeOK
  <2>2. config = fd[p] => text[config] = Empty
    BY <1>3
  <2> QED
    BY <1>1, <1>2, <1>5, <2>1, <2>2, Texts DEF ProtoInv, HookOnTrack, Copied
<1> QED
  BY <1>2, <1>7, <1>8, <1>9, <1>10 DEF ProtoInv

LEMMA FinishSafe ==
    ASSUME TypeOK, ProtoInv, NEW p \in Pod, Finish(p)
    PROVE  TypeOK' /\ ProtoInv'
<1>1. /\ entry[p] = "finish" /\ entry' = [entry EXCEPT ![p] = "done"]
      /\ fd' = [fd EXCEPT ![p] = None] /\ UNCHANGED <<config, temp, hook, out, found, starts>>
  BY DEF Finish
<1>2. /\ hook[p] # "down" /\ OneUp' /\ entry'[p] = "done"
      /\ entry' \in [Pod -> {"look", "open", "begin", "finish", "done"}]
      /\ \A q \in Pod : q # p => hook[q] = "down" /\ entry'[q] = "done"
  BY <1>1, EntryStep
<1>3. text[fd[p]] = Partial(0)
  BY <1>1 DEF ProtoInv, EntryOnTrack
<1>4. text' = [text EXCEPT ![fd[p]] = Generated(0)] /\ Generated(0) \in Text
  BY <1>3, Texts DEF Finish
<1>5. /\ Len(text) \in Nat /\ text' \in Seq(Text) /\ Len(text') = Len(text)
      /\ config # None /\ text[config] \notin Whole /\ found # "whole"
      /\ text'[config] = IF config = fd[p] THEN Generated(0) ELSE text[config]
      /\ temp # None => text'[temp] = text[temp]
  BY <1>1, <1>4, Filling
<1>6. fd' \in [Pod -> 0..Len(text)] /\ \A q \in Pod : fd'[q] = IF q = p THEN None ELSE fd[q]
  <2> DEFINE inode == 0..Len(text)
  <2>1. None \in inode /\ fd \in [Pod -> inode]
    BY <1>5 DEF TypeOK, None
  <2> HIDE DEF inode
  <2>2. fd' \in [Pod -> inode] /\ \A q \in Pod : fd'[q] = IF q = p THEN None ELSE fd[q]
    BY <1>1, <2>1
  <2> QED
    BY <2>2 DEF inode
<1>7. \A q \in Pod : fd'[q] # None <=> entry'[q] \in {"begin", "finish"}
  BY <1>2, <1>6, Alone DEF TypeOK
<1>8. TypeOK'
  BY <1>1, <1>2, <1>5, <1>6, <1>7 DEF TypeOK
<1>9. FileInOrder'
  BY <1>1, <1>5 DEF ProtoInv, FileInOrder, Whole
<1>10. EntryOnTrack'
  BY <1>1, <1>2, <1>5 DEF EntryOnTrack
<1>11. HookOnTrack'
  <2>1. hook[p] \in {"sed", "mv"} => temp # None
    BY DEF ProtoInv, HookOnTrack, TypeOK
  <2>2. Generated(0) \in Whole /\ Generated(0) # Empty /\ ~HasMarker(Generated(0))
    BY Texts DEF Whole
  <2> QED
    BY <1>1, <1>2, <1>5, <2>1, <2>2, Texts DEF ProtoInv, HookOnTrack, Copied
<1> QED
  BY <1>2, <1>8, <1>9, <1>10, <1>11 DEF ProtoInv

\* What the step of one hook does to the others: they are down.
LEMMA Others ==
    ASSUME TypeOK, ProtoInv, NEW p \in Pod, hook[p] # "down",
           NEW next \in Commands \ {"down"}, hook' = [hook EXCEPT ![p] = next]
    PROVE  /\ hook' \in [Pod -> Commands] /\ hook'[p] = next /\ starts > 0
           /\ \A q \in Pod : /\ q # p => hook'[q] = "down" /\ entry[q] = "done"
                             /\ hook[q] # "down" => hook'[q] # "down"
           /\ OneUp'
<1>1. \A q \in Pod : q # p => hook[q] = "down" /\ entry[q] = "done"
  BY Alone
<1>2. \A q \in Pod : hook'[q] = IF q = p THEN next ELSE hook[q]
  BY DEF TypeOK
<1>3. hook' \in [Pod -> Commands] /\ starts > 0
  BY DEF TypeOK, ProtoInv, HookOnTrack
<1> QED
  BY <1>1, <1>2, <1>3 DEF OneUp

\* A hook that leaves the files alone leaves what the entrypoint relies on.
LEMMA EntryKept ==
    ASSUME ProtoInv, UNCHANGED <<config, temp, text, entry, fd>>,
           \A q \in Pod : hook[q] # "down" => hook'[q] # "down"
    PROVE  EntryOnTrack'
  BY DEF ProtoInv, EntryOnTrack

LEMMA WaitSafe ==
    ASSUME TypeOK, ProtoInv, NEW p \in Pod, Wait(p)
    PROVE  TypeOK' /\ ProtoInv'
<1> DEFINE next == IF config # None THEN "grep" ELSE "gave up"
<1>1. /\ next \in Commands \ {"down"} /\ hook[p] = "wait" /\ hook' = [hook EXCEPT ![p] = next]
      /\ next = "grep" => config # None
      /\ next = "grep" \/ next = "gave up"
  BY DEF Wait, Step, Commands
<1>2. UNCHANGED <<config, temp, text, out, entry, fd, starts>>
  BY DEF Wait, files
<1> HIDE DEF next
<1>3. /\ hook' \in [Pod -> Commands] /\ hook'[p] = next /\ OneUp' /\ starts > 0
      /\ \A q \in Pod : /\ q # p => hook'[q] = "down" /\ entry[q] = "done"
                        /\ hook[q] # "down" => hook'[q] # "down"
  BY <1>1, Others
<1>4. /\ found' \in {"nothing", "whole", "part"}
      /\ found' = "whole" => config # None /\ (found = "whole" \/ text[config].is = "generated")
  BY DEF Wait, TypeOK, ProtoInv, FileInOrder
<1>5. \A q \in Pod : out'[q] # None <=> hook'[q] \in {"sed", "mv"}
  BY <1>1, <1>2, <1>3, Alone DEF TypeOK
<1>6. TypeOK'
  BY <1>2, <1>3, <1>4, <1>5 DEF TypeOK
<1>7. FileInOrder'
  BY <1>2, <1>4, Texts DEF ProtoInv, FileInOrder
<1>8. EntryOnTrack'
  BY <1>2, <1>3, EntryKept
<1>9. HookOnTrack'
  BY <1>1, <1>2, <1>3 DEF HookOnTrack
<1> QED
  BY <1>3, <1>6, <1>7, <1>8, <1>9 DEF ProtoInv

LEMMA GrepSafe ==
    ASSUME TypeOK, ProtoInv, NEW p \in Pod, Grep(p)
    PROVE  TypeOK' /\ ProtoInv'
<1> DEFINE next == IF HasMarker(text[config]) THEN "done" ELSE "open"
<1>1. /\ next \in Commands \ {"down"} /\ hook[p] = "grep" /\ hook' = [hook EXCEPT ![p] = next]
      /\ (next = "done" /\ HasMarker(text[config])) \/ (next = "open" /\ ~HasMarker(text[config]))
  BY DEF Grep, Step, Commands
<1>2. UNCHANGED <<config, temp, text, out, entry, fd, found, starts>>
  BY DEF Grep, files
<1>3. config # None
  BY <1>1 DEF ProtoInv, HookOnTrack
<1>4. found = "whole" /\ next = "done" => text[config] = Generated(1)
  BY <1>1, Texts DEF ProtoInv, FileInOrder, Whole
<1> HIDE DEF next
<1>5. /\ hook' \in [Pod -> Commands] /\ hook'[p] = next /\ OneUp' /\ starts > 0
      /\ \A q \in Pod : /\ q # p => hook'[q] = "down" /\ entry[q] = "done"
                        /\ hook[q] # "down" => hook'[q] # "down"
  BY <1>1, Others
<1>6. \A q \in Pod : out'[q] # None <=> hook'[q] \in {"sed", "mv"}
  BY <1>1, <1>2, <1>5, Alone DEF TypeOK
<1>7. TypeOK'
  BY <1>2, <1>5, <1>6 DEF TypeOK
<1>8. FileInOrder'
  BY <1>2 DEF ProtoInv, FileInOrder
<1>9. EntryOnTrack'
  BY <1>2, <1>5, EntryKept
<1>10. HookOnTrack'
  BY <1>1, <1>2, <1>3, <1>4, <1>5 DEF HookOnTrack
<1> QED
  BY <1>5, <1>7, <1>8, <1>9, <1>10 DEF ProtoInv

LEMMA OpenTempSafe ==
    ASSUME TypeOK, ProtoInv, NEW p \in Pod, OpenTemp(p)
    PROVE  TypeOK' /\ ProtoInv'
<1>1. hook[p] = "open" /\ hook' = [hook EXCEPT ![p] = "sed"] /\ "sed" \in Commands \ {"down"}
  BY DEF OpenTemp, Step, Commands
<1>2. UNCHANGED <<config, entry, fd, found, starts>> /\ out' = [out EXCEPT ![p] = temp']
  BY DEF OpenTemp
<1>3. /\ hook' \in [Pod -> Commands] /\ hook'[p] = "sed" /\ OneUp' /\ starts > 0
      /\ \A q \in Pod : /\ q # p => hook'[q] = "down" /\ entry[q] = "done"
                        /\ hook[q] # "down" => hook'[q] # "down"
  BY <1>1, Others
<1>4. Len(text) \in Nat /\ fd \in [Pod -> 0..Len(text)]
  BY Inodes, Texts DEF TypeOK
<1>5. config # None /\ config \in 1..Len(text) /\ ~HasMarker(text[config])
  BY <1>1, <1>4 DEF ProtoInv, HookOnTrack, TypeOK, None
<1>6. entry[p] \in {"begin", "finish"} => fd[p] \in 1..Len(text) /\ fd[p] # temp
  BY <1>4 DEF ProtoInv, EntryOnTrack, TypeOK, None
\* The temporary file is a new inode or the one it was, and it is empty.
<1>7. /\ text' \in Seq(Text) /\ Len(text') \in Nat /\ Len(text') >= Len(text)
      /\ temp' \in 1..Len(text') /\ temp' # config
      /\ text'[temp'] = Empty /\ text'[config] = text[config]
      /\ entry[p] \in {"begin", "finish"} => text'[fd[p]] = text[fd[p]] /\ fd[p] # temp'
  <2>1. CASE temp = None
    <3>1. temp' = Len(text) + 1 /\ text' = Append(text, Empty)
      BY <2>1 DEF OpenTemp
    <3> QED
      BY <1>4, <1>5, <1>6, <3>1, Inodes, Texts
  <2>2. CASE temp # None
    <3>1. text' = [text EXCEPT ![temp] = Empty] /\ temp' = temp
      BY <2>2 DEF OpenTemp
    <3>2. temp \in 1..Len(text) /\ temp # config
      BY <1>4, <1>5, <2>2 DEF TypeOK, None
    <3> QED
      BY <1>4, <1>5, <1>6, <3>1, <3>2, Inodes, Texts
  <2> QED
    BY <2>1, <2>2
<1>8. \A q \in Pod : out'[q] = IF q = p THEN temp' ELSE out[q]
  BY <1>2 DEF TypeOK
<1>9. out' \in [Pod -> 0..Len(text')] /\ fd' \in [Pod -> 0..Len(text')]
  BY <1>2, <1>4, <1>7 DEF TypeOK
<1>10. \A q \in Pod : out'[q] # None <=> hook'[q] \in {"sed", "mv"}
  BY <1>1, <1>3, <1>7, <1>8, Alone DEF TypeOK, None
<1>11. TypeOK'
  BY <1>2, <1>3, <1>4, <1>5, <1>7, <1>9, <1>10 DEF TypeOK
<1>12. FileInOrder'
  BY <1>2, <1>5, <1>7 DEF ProtoInv, FileInOrder
<1>13. EntryOnTrack'
  BY <1>2, <1>3, <1>7 DEF ProtoInv, EntryOnTrack
<1>14. HookOnTrack'
  BY <1>2, <1>3, <1>5, <1>7, <1>8 DEF HookOnTrack
<1> QED
  BY <1>3, <1>11, <1>12, <1>13, <1>14 DEF ProtoInv

LEMMA SedSafe ==
    ASSUME TypeOK, ProtoInv, NEW p \in Pod, Sed(p)
    PROVE  TypeOK' /\ ProtoInv'
<1>1. hook[p] = "sed" /\ hook' = [hook EXCEPT ![p] = "mv"] /\ "mv" \in Commands \ {"down"}
  BY DEF Sed, Step, Commands
<1>2. UNCHANGED <<config, temp, out, entry, fd, found, starts>>
  BY DEF Sed
<1>3. /\ hook' \in [Pod -> Commands] /\ hook'[p] = "mv" /\ OneUp' /\ starts > 0
      /\ \A q \in Pod : /\ q # p => hook'[q] = "down" /\ entry[q] = "done"
                        /\ hook[q] # "down" => hook'[q] # "down"
  BY <1>1, Others
<1>4. /\ config # None /\ ~HasMarker(text[config]) /\ MaxStarts > 0
      /\ out[p] = temp /\ temp # None /\ text[temp] = Empty
  BY <1>1, <1>3, ReplicasAssumption DEF ProtoInv, HookOnTrack, TypeOK
<1>5. text[config] \in {Empty, Partial(0), Generated(0)}
  BY <1>4, Texts DEF ProtoInv, FileInOrder, Whole
<1>6. /\ Len(text) \in Nat /\ config \in 1..Len(text) /\ temp \in 1..Len(text) /\ temp # config
      /\ entry[p] \in {"begin", "finish"} => fd[p] \in 1..Len(text) /\ fd[p] # temp
  BY <1>4, Inodes, Texts DEF ProtoInv, EntryOnTrack, TypeOK, None
<1> DEFINE t == Inserted(text[config])
<1>7. /\ t \in {Empty, Partial(1), Generated(1)} /\ t \in Text
      /\ text[config] = Empty => t = Empty
      /\ t \in Whole => text[config] \in Whole
      /\ text[config] \in Whole => t = Generated(1)
  BY <1>4, <1>5, Writes, Texts DEF Whole
<1> HIDE DEF t
<1>8. Outcomes(p) = {t}
  BY <1>4, <1>6, <1>7, Writes DEF Outcomes, t
<1>9. text' = [text EXCEPT ![temp] = t]
  BY <1>4, <1>8 DEF Sed
<1>10. /\ text' \in Seq(Text) /\ Len(text') = Len(text)
       /\ text'[temp] = t /\ text'[config] = text[config]
       /\ entry[p] \in {"begin", "finish"} => text'[fd[p]] = text[fd[p]]
  BY <1>6, <1>7, <1>9, Inodes
<1>11. \A q \in Pod : out'[q] # None <=> hook'[q] \in {"sed", "mv"}
  BY <1>1, <1>2, <1>3, Alone DEF TypeOK
<1>12. TypeOK'
  BY <1>2, <1>3, <1>10, <1>11 DEF TypeOK
<1>13. FileInOrder'
  BY <1>2, <1>10 DEF ProtoInv, FileInOrder
<1>14. EntryOnTrack'
  BY <1>2, <1>3, <1>10 DEF ProtoInv, EntryOnTrack
<1>15. found = "whole" => text[config] \in Whole
  BY DEF ProtoInv, FileInOrder
<1>16. HookOnTrack'
  BY <1>2, <1>3, <1>4, <1>7, <1>10, <1>15 DEF HookOnTrack, Copied
<1> QED
  BY <1>3, <1>12, <1>13, <1>14, <1>16 DEF ProtoInv

LEMMA MoveSafe ==
    ASSUME TypeOK, ProtoInv, NEW p \in Pod, Move(p)
    PROVE  TypeOK' /\ ProtoInv'
<1>1. hook[p] = "mv" /\ hook' = [hook EXCEPT ![p] = "done"] /\ "done" \in Commands \ {"down"}
  BY DEF Move, Step, Commands
<1>2. UNCHANGED <<text, entry, fd, found, starts>> /\ out' = [out EXCEPT ![p] = None]
  BY DEF Move
<1>3. /\ hook' \in [Pod -> Commands] /\ hook'[p] = "done" /\ OneUp' /\ starts > 0
      /\ \A q \in Pod : /\ q # p => hook'[q] = "down" /\ entry[q] = "done"
                        /\ hook[q] # "down" => hook'[q] # "down"
  BY <1>1, Others
<1>4. out[p] = temp /\ temp # None /\ Copied(text[temp]) /\ config # None
  BY <1>1 DEF ProtoInv, HookOnTrack, TypeOK
<1>5. config' = temp /\ temp' = None
  BY <1>4 DEF Move
<1>6. Len(text) \in Nat /\ temp \in 1..Len(text)
  BY <1>4, Inodes, Texts DEF TypeOK, None
<1>7. out' \in [Pod -> 0..Len(text)] /\ out'[p] = None
  <2> DEFINE inode == 0..Len(text)
  <2>1. None \in inode /\ out \in [Pod -> inode]
    BY <1>6 DEF TypeOK, None
  <2> HIDE DEF inode
  <2>2. out' \in [Pod -> inode] /\ out'[p] = None
    BY <1>2, <2>1
  <2> QED
    BY <2>2 DEF inode
<1>8. \A q \in Pod : out'[q] # None <=> hook'[q] \in {"sed", "mv"}
  BY <1>1, <1>2, <1>3, <1>7, Alone DEF TypeOK
<1>9. TypeOK'
  BY <1>2, <1>3, <1>5, <1>6, <1>7, <1>8 DEF TypeOK, None
<1>10. FileInOrder'
  BY <1>2, <1>4, <1>5, <1>6 DEF FileInOrder, Copied, Whole, None
<1>11. EntryOnTrack'
  <2>1. entry[p] \in {"begin", "finish"} => fd[p] # None
    BY DEF TypeOK
  <2> QED
    BY <1>2, <1>3, <1>4, <1>5, <2>1 DEF ProtoInv, EntryOnTrack, Copied
<1>12. HookOnTrack'
  BY <1>2, <1>3, <1>4, <1>5 DEF HookOnTrack, Copied
<1> QED
  BY <1>3, <1>9, <1>10, <1>11, <1>12 DEF ProtoInv

LEMMA StutterSafe == ASSUME TypeOK, ProtoInv, UNCHANGED vars PROVE TypeOK' /\ ProtoInv'
  BY DEF vars, files, TypeOK, ProtoInv, OneUp, FileInOrder, EntryOnTrack, HookOnTrack, Copied

-----------------------------------------------------------------------------
(* Theorems                                                                 *)

\* The inductive invariant: with one replica a hook and the entrypoint beside it
\* find what they left, whenever containers are killed and started again, and a
\* hook that stopped waiting too early spoils wp-config.php no more than that it is
\* empty or a beginning (forwardedProtoPostStart).
THEOREM ProtoInvariant == ASSUME OneReplica PROVE Spec => [](TypeOK /\ ProtoInv)
<1>1. TypeOK /\ ProtoInv /\ [Next]_vars => (TypeOK /\ ProtoInv)'
  <2> SUFFICES ASSUME TypeOK, ProtoInv, [Next]_vars PROVE TypeOK' /\ ProtoInv'
    OBVIOUS
  <2>1. CASE \E p \in Pod : Start(p) \/ Kill(p) \/ Entrypoint(p)
    BY <2>1, StartSafe, KillSafe, LookSafe, OpenConfigSafe, BeginSafe, FinishSafe
       DEF Entrypoint
  <2>2. CASE \E p \in Pod : Run(p)
    BY <2>2, WaitSafe, GrepSafe, OpenTempSafe, SedSafe, MoveSafe DEF Run
  <2>3. CASE UNCHANGED vars
    BY <2>3, StutterSafe
  <2> QED
    BY <2>1, <2>2, <2>3 DEF Next
<1> QED
  BY <1>1, Initially, PTL DEF Spec

\* Every variable keeps its type, a hook has a file open from its redirection to
\* mv, and wp-config.php and the temporary file are never one.
THEOREM TypeCorrect == ASSUME OneReplica PROVE Spec => []TypeOK
  BY ProtoInvariant, PTL

\* wp-config.php stays a generated file, wherever the container is killed, once a
\* hook has found it whole and if none found it otherwise.
THEOREM ConfigStaysWhole == ASSUME OneReplica PROVE Spec => []ConfigKept
<1>1. ProtoInv => ConfigKept
  BY Texts DEF ProtoInv, FileInOrder, ConfigKept
<1> QED
  BY <1>1, ProtoInvariant, PTL

\* The line is never there twice, however often the hook is killed and repeated,
\* and also when it finds the file empty or only its beginning.
THEOREM NeverTwice == ASSUME OneReplica PROVE Spec => []InsertedOnce
<1>1. ProtoInv => InsertedOnce
  BY DEF ProtoInv, FileInOrder, InsertedOnce, Generated, Partial, Empty, Whole
<1> QED
  BY <1>1, ProtoInvariant, PTL

\* A hook that ends without having given up on the file leaves the line in it, if
\* no hook stopped waiting at a file that was not yet whole.
THEOREM LineIsThere == ASSUME OneReplica PROVE Spec => []InsertedAtEnd
<1>1. ProtoInv => InsertedAtEnd
  BY Texts DEF ProtoInv, HookOnTrack, InsertedAtEnd
<1> QED
  BY <1>1, ProtoInvariant, PTL
=============================================================================
