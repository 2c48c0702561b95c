----------------------------- MODULE EnsureDir ------------------------------
(***************************************************************************)
(* espCompressorEnsureDir (src/esp_compressor/util/fs_utils.cpp), as called *)
(* by the FileSinks of several tasks on one file system: look upwards for  *)
(* a prefix of the path that exists, then create the rest downwards.  The  *)
(* tasks' calls of the file system interleave, so that a name may be there *)
(* by the time mkdir is called, and mkdir may fail.  What mkdir says is    *)
(* what the frame returns: nobody looks again.                             *)
(*                                                                         *)
(* A path is the sequence of its names: "/a/b" is <<"a", "b">>, and a      *)
(* doubled or a trailing slash is an empty name.  The frames of the        *)
(* recursion are the prefixes of the path, so depth[t] says where t is.    *)
(***************************************************************************)
EXTENDS Naturals, SequencesExt

CONSTANTS
  Tasks,
  Paths,   \* what FileSink::open may ask for
  Files    \* paths at which a plain file stands

VARIABLES
  dirs,    \* the directories there are
  path,    \* path[t]: the argument of t's call
  depth,   \* names in the path of the innermost frame
  pc,      \* "look" (exists), "make" (mkdir), "done"
  answer,  \* what the call returned
  faults,  \* history: calls in which mkdir failed of itself
  overtaken  \* history: calls that have looked in vain for what another made then

vars == <<dirs, path, depth, pc, answer, faults, overtaken>>

(* The file system reads slashes that name nothing as none. *)
Resolve(p) ==
  LET names[n \in 0 .. Len(p)] ==
        IF n = 0 THEN <<>>
        ELSE IF p[n] # "" THEN Append(names[n - 1], p[n]) ELSE names[n - 1]
  IN names[Len(p)]
Exists(p)  == Resolve(p) \in dirs \cup Files
CanMake(p) == Front(Resolve(p)) \in dirs

(* espCompressorDirname: "" and "/" are both the path without names.       *)
Dirname(p) == Front(p)
IsRoot(p)  == p = <<>> \/ p = <<"">>

(* p and the paths above it. *)
Above(p) == {SubSeq(p, 1, n) : n \in 0 .. Len(p)}

At(t) == SubSeq(path[t], 1, depth[t])

(* The frames of t's call that have looked for their prefix in vain: each  *)
(* will call mkdir for it, when the frames further in have returned true.  *)
InVain(t, n) ==
  \/ pc[t] = "look" /\ n > depth[t]
  \/ pc[t] = "make" /\ n >= depth[t]
Missed(t) ==
  {Resolve(SubSeq(path[t], 1, n)) : n \in {k \in 1 .. Len(path[t]) : InVain(t, k)}}

(* mkdir makes the directory, and whoever missed it is too late. *)
Create(t) ==
  /\ dirs' = dirs \cup {Resolve(At(t))}
  /\ overtaken' = overtaken \cup {u \in Tasks \ {t} : Resolve(At(t)) \in Missed(u)}

(* The innermost frame returns ok: to a frame that returns false too, or   *)
(* goes on to mkdir, or to FileSink::open.                                 *)
Return(t, ok) ==
  IF ~ok \/ depth[t] = Len(path[t])
    THEN /\ pc' = [pc EXCEPT ![t] = "done"]
         /\ answer' = [answer EXCEPT ![t] = ok]
         /\ UNCHANGED depth
    ELSE /\ pc' = [pc EXCEPT ![t] = "make"]
         /\ depth' = [depth EXCEPT ![t] = @ + 1]
         /\ UNCHANGED answer

-----------------------------------------------------------------------------
(* Bugs the checks must notice; none of them is part of Next.              *)

LookOnce(t) ==      \* Look that does not care for the parent
  /\ pc[t] = "look"
  /\ IF Exists(At(t)) THEN Return(t, TRUE)
     ELSE pc' = [pc EXCEPT ![t] = "make"] /\ UNCHANGED <<depth, answer>>
  /\ UNCHANGED <<dirs, path, faults, overtaken>>

MakeIgnored(t) ==   \* Make that returns true whatever mkdir said
  /\ pc[t] = "make"
  /\ ~Exists(At(t))
  /\ IF CanMake(At(t)) THEN Create(t) ELSE UNCHANGED <<dirs, overtaken>>
  /\ Return(t, TRUE)
  /\ UNCHANGED <<path, faults>>

-----------------------------------------------------------------------------
Init ==
  /\ \E p \in {q \in Paths : Above(Resolve(q)) \cap Files = {}} :
       dirs = Above(Resolve(p)) \cup UNION {Above(Front(f)) : f \in Files}
  /\ path \in [Tasks -> Paths]
  /\ depth = [t \in Tasks |-> Len(path[t])]
  /\ pc = [t \in Tasks |-> "look"]
  /\ answer = [t \in Tasks |-> FALSE]
  /\ faults = {}
  /\ overtaken = {}

Look(t) ==
  /\ pc[t] = "look"
  /\ IF IsRoot(At(t)) \/ Exists(At(t))
       THEN Return(t, TRUE)
       ELSE /\ depth' = [depth EXCEPT ![t] = Len(Dirname(At(t)))]
            /\ UNCHANGED <<pc, answer>>
  /\ UNCHANGED <<dirs, path, faults, overtaken>>

(* mkdir makes a directory in one that is there, ... *)
Make(t) ==
  /\ pc[t] = "make"
  /\ ~Exists(At(t))
  /\ IF CanMake(At(t)) THEN Create(t) ELSE UNCHANGED <<dirs, overtaken>>
  /\ Return(t, CanMake(At(t)))
  /\ UNCHANGED <<path, faults>>

(* ... says what its file system likes of a name that is there by now, ... *)
MakePresent(t) ==
  /\ pc[t] = "make"
  /\ Exists(At(t))
  /\ \E ok \in BOOLEAN : Return(t, ok)
  /\ UNCHANGED <<dirs, path, faults, overtaken>>

(* ... or fails: no space, no handle. *)
MakeFails(t) ==
  /\ pc[t] = "make"
  /\ Return(t, FALSE)
  /\ faults' = faults \cup {t}
  /\ UNCHANGED <<dirs, path, overtaken>>

Step(t) == Look(t) \/ Make(t) \/ MakePresent(t) \/ MakeFails(t)

-----------------------------------------------------------------------------
(* True means that the path exists with everything above it, so that the   *)
(* temporary file can be created in it; it is a directory unless a file    *)
(* had its name.                                                           *)
TrueMeansThere ==
  \A t \in Tasks : answer[t] =>
    LET p == Resolve(path[t])
    IN /\ Above(p) \subseteq dirs \cup Files
       /\ p \notin Files => Above(p) \subseteq dirs

(* A slash too many: the call itself makes the directory under one of its  *)
(* spellings and calls mkdir for it under the next.                        *)
Doubled(p) == \E n \in 1 .. Len(p) : p[n] = ""

(* Whose mkdir may be of a name that is there: one that another task made  *)
(* since this call looked, or the call itself.                             *)
MeetsPresent(t) == t \in overtaken \/ Doubled(path[t])

(* False means that mkdir failed, that a file is in the way, or that mkdir *)
(* was of a name that another task was quicker to make, or that the path   *)
(* spells twice.  That other tasks are at work, or have been, is no reason *)
(* by itself.                                                              *)
FalseMeansTrouble ==
  \A t \in Tasks : pc[t] = "done" /\ ~answer[t] =>
    \/ t \in faults
    \/ Above(Front(Resolve(path[t]))) \cap Files # {}
    \/ MeetsPresent(t)
=============================================================================
