----------------------------- MODULE AssetStore -----------------------------
(***************************************************************************)
(* What the resource manager promises, without files: named assets are     *)
(* created, moved to a store, loaded back from it as they were, and        *)
(* dropped.  The store outlives the program; what is loaded does not.      *)
(***************************************************************************)
EXTENDS Functions

CONSTANTS
  Names,      (* the names of assets                                       *)
  Contents    (* what an asset can be                                      *)

VARIABLES
  up,         (* the program runs                                          *)
  loaded,     (* the assets of the running program, by name                *)
  stored      (* the assets in the store, by name                          *)

vars == << up, loaded, stored >>

Nothing == [n \in {} |-> n]

Init == up = FALSE /\ loaded = Nothing /\ stored = Nothing

Start == ~ up /\ up' = TRUE /\ UNCHANGED << loaded, stored >>

(* A name that is taken keeps its asset.                                   *)
Create(n, c) ==
  /\ up
  /\ n \notin DOMAIN loaded
  /\ loaded' = [m \in DOMAIN loaded \cup {n} |-> IF m = n THEN c ELSE loaded[m]]
  /\ UNCHANGED << up, stored >>

(* Everything loaded moves to an empty store.                              *)
Save ==
  /\ up
  /\ stored = Nothing
  /\ stored' = loaded
  /\ loaded' = Nothing
  /\ UNCHANGED up

(* Everything stored is loaded, in place of what had its name.             *)
Load ==
  /\ up
  /\ loaded' = [n \in DOMAIN stored \cup DOMAIN loaded |->
                  IF n \in DOMAIN stored THEN stored[n] ELSE loaded[n]]
  /\ UNCHANGED << up, stored >>

Clear == up /\ loaded' = Nothing /\ UNCHANGED << up, stored >>

Stop == up /\ up' = FALSE /\ loaded' = Nothing /\ UNCHANGED stored

(* A program that dies while it saves leaves a part in the store.          *)
DieSaving ==
  /\ up /\ up' = FALSE
  /\ stored = Nothing
  /\ loaded' = Nothing
  /\ \E part \in SUBSET DOMAIN loaded : stored' = Restrict(loaded, part)

(* So does a save that fails, and the assets are gone all the same.        *)
SavePart ==
  /\ up
  /\ stored = Nothing
  /\ loaded' = Nothing
  /\ \E part \in SUBSET DOMAIN loaded : stored' = Restrict(loaded, part)
  /\ UNCHANGED up

(* The store is thrown away.                                               *)
Lose == stored' = Nothing /\ UNCHANGED << up, loaded >>

Next ==
  \/ Start
  \/ \E n \in Names, c \in Contents : Create(n, c)
  \/ Save
  \/ Load
  \/ Clear
  \/ Stop
  \/ DieSaving
  \/ SavePart
  \/ Lose

Spec == Init /\ [][Next]_vars
=============================================================================
