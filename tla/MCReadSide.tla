----------------------------- MODULE MCReadSide -----------------------------
(***************************************************************************)
(* Instantiates ReadSide for TLC.                                          *)
(***************************************************************************)
EXTENDS ReadSide

V(parts, text) == [parts |-> parts, text |-> text]

Of(version, body, valid) ==
  [flow |-> "refund", version |-> version, body |-> body, valid |-> valid]

Low   == V(<<1, 9, 0>>, "1.9.0")
Minor == V(<<1, 10, 0>>, "1.10.0")
Patch == V(<<1, 9, 2>>, "1.9.2")

\* Two bodies under one key, versions that sort one way as text and the other
\* way as numbers, two that differ in the patch, and a file that is refused.
SomeContents ==
  {Of(Low, "x", TRUE), Of(Low, "y", TRUE), Of(Minor, "x", TRUE),
   Of(Patch, "x", TRUE), Of(Low, "x", FALSE)}

TwoPaths == <<"a.yaml", "b.yaml">>

\* The directory of the scenes that are about reading.
Settled == [p \in Range(TwoPaths) |->
              IF p = "a.yaml" THEN Of(Low, "x", TRUE) ELSE Absent]

ThreeScenes ==
  {[client |-> "nobody", times |-> {1}, edits |-> 2, evals |-> 1,
    directories |-> [Range(TwoPaths) -> SomeContents \cup {Absent}]],
   [client |-> "events", times |-> {1}, edits |-> 0, evals |-> 4,
    directories |-> {Settled}],
   [client |-> "traces", times |-> {1, 2}, edits |-> 0, evals |-> 4,
    directories |-> {Settled}]}

=============================================================================
