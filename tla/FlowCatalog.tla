----------------------------- MODULE FlowCatalog ----------------------------
(***************************************************************************)
(* FlowRegistry: the flows of a process, read from the flow directory when *)
(* it starts and served from memory until it ends, while someone edits the *)
(* files.  A start reads file by file, and the first file it cannot read,  *)
(* parse or validate aborts it.                                            *)
(*                                                                         *)
(* What FlowValidator says of a file is part of its content here.          *)
(***************************************************************************)
EXTENDS Integers, Sequences, Functions

CONSTANTS
  Paths,      \* file names in the order load_all visits them: the *.yaml ones
              \* sorted by name, then the *.yml ones
  Contents,   \* what a file can hold
  Absent      \* there is no such file

\* A version is the text it is written as and the three numbers in it: "1.9.0"
\* and "01.9.0" are different texts with the same numbers.
Version(parts, text) == [parts |-> parts, text |-> text]

VARIABLES
  files,      \* the flow directory
  pc,         \* "down" | "loading" | "serving"
  todo,       \* positions in Paths of the files globbed and not yet loaded
  flows,      \* the registry's dictionary, in its order
  read        \* contents this start has read, in order (history)

catalogVars == <<files, pc, todo, flows, read>>
registryVars == <<pc, todo, flows, read>>

Init ==
  /\ files \in [Range(Paths) -> Contents \cup {Absent}]
  /\ pc = "down" /\ todo = {} /\ flows = <<>> /\ read = <<>>

-----------------------------------------------------------------------------
(* Loading.                                                                *)

\* The key of a flow, and with it its id: uuid5 of flow_id and version.
KeyOf(c) == <<c.flow, c.version.text>>

\* A flow file is deployed, changed or removed, at any time.
Edit(path, content) ==
  /\ files[path] # content
  /\ files' = [files EXCEPT ![path] = content]
  /\ UNCHANGED registryVars

\* The directory is listed once, before the first file is opened.
Start ==
  /\ pc = "down"
  /\ todo' = {i \in DOMAIN Paths : files[Paths[i]] # Absent}
  /\ pc' = "loading" /\ flows' = <<>> /\ read' = <<>>
  /\ UNCHANGED files

\* Mutant: a flow that is there already is kept.
StoreKept(c) ==
  IF \E i \in DOMAIN flows : KeyOf(flows[i]) = KeyOf(c) THEN flows
  ELSE Append(flows, c)

\* A later file with the same key replaces the flow and keeps its place.
Store(c) ==
  LET at == {i \in DOMAIN flows : KeyOf(flows[i]) = KeyOf(c)} IN
  IF at = {} THEN Append(flows, c)
  ELSE [i \in DOMAIN flows |-> IF i \in at THEN c ELSE flows[i]]

Loads(c) == c # Absent /\ c.valid

FirstTodo == CHOOSE i \in todo : \A j \in todo : i <= j

LoadFile ==
  /\ pc = "loading" /\ todo # {}
  /\ LET c == files[Paths[FirstTodo]] IN
       /\ Loads(c)
       /\ flows' = Store(c)
       /\ read' = Append(read, c)
  /\ todo' = todo \ {FirstTodo}
  /\ UNCHANGED <<files, pc>>

\* FlowValidationError, a file that has gone or is no flow: startup aborts.
LoadFails ==
  /\ pc = "loading" /\ todo # {} /\ ~Loads(files[Paths[FirstTodo]])
  /\ pc' = "down" /\ todo' = {} /\ flows' = <<>> /\ read' = <<>>
  /\ UNCHANGED files

Ready ==
  /\ pc = "loading" /\ todo = {}
  /\ pc' = "serving"
  /\ UNCHANGED <<files, todo, flows, read>>

Stop ==
  /\ pc = "serving"
  /\ pc' = "down" /\ todo' = {} /\ flows' = <<>> /\ read' = <<>>
  /\ UNCHANGED files

-----------------------------------------------------------------------------
(* Reading the registry.                                                   *)

\* Mutant: the patch number is left out of the key.
SemverKeyMinor(v) == SubSeq(v.parts, 1, 2)

\* _semver_key
SemverKey(v) == v.parts

Before(k, l) ==
  \E i \in DOMAIN k : k[i] < l[i] /\ \A j \in 1..(i - 1) : k[j] = l[j]

Matching(f) == {i \in DOMAIN flows : flows[i].flow = f}

\* get without a version: max() returns the first of the highest ones.
Latest(f) ==
  LET key(i) == SemverKey(flows[i].version)
      best == CHOOSE i \in Matching(f) : \A j \in Matching(f) :
                ~Before(key(i), key(j)) /\ (Before(key(j), key(i)) \/ i <= j)
  IN  flows[best]

\* What a request for flow f, at version text v or at none, is answered with.
Get(f, v) ==
  IF v = "none"
  THEN IF Matching(f) = {} THEN {} ELSE {Latest(f)}
  ELSE {c \in Range(flows) : KeyOf(c) = <<f, v>>}

-----------------------------------------------------------------------------
(* Properties.                                                             *)

\* A process that serves has read every file it listed, each of them valid, and
\* serves of every key the flow read last and nothing else: an edit or a bad
\* file at any moment of the start gives the whole directory or no service
\* (load_all, lifespan).
WholeDirectoryOrNothing ==
  pc = "serving" =>
    /\ \A c \in Range(read) : Loads(c)
    /\ \A i \in DOMAIN read :
         (\A j \in DOMAIN read : KeyOf(read[j]) = KeyOf(read[i]) => j <= i)
           <=> \E n \in DOMAIN flows : flows[n] = read[i]
                 /\ \A j \in (i + 1)..Len(read) : read[j] # read[i]
    /\ \A c \in Range(flows) : c \in Range(read)
    /\ \A m, n \in DOMAIN flows : KeyOf(flows[m]) = KeyOf(flows[n]) => m = n

\* A request that names no version gets one no loaded version of the flow is
\* above, by number and not by spelling, however the files are named.
LatestIsHighest ==
  pc = "serving" =>
    \A c \in Range(flows) : \A d \in Get(c.flow, "none") :
      d.flow = c.flow /\ ~Before(d.version.parts, c.version.parts)

=============================================================================
