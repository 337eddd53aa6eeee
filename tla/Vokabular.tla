------------------------------ MODULE Vokabular ------------------------------
(***************************************************************************)
(* What the master database promises about one of its code lists           *)
(* (lokaletype, aktivitet, fasilitet): the list only grows, an existing     *)
(* concept is changed by its owner alone, and names and hierarchy stay      *)
(* usable.  Nothing is said of how the concepts arrive; Kodeverk does.      *)
(*                                                                         *)
(* forvaltet is history.  It counts the owner's edits, so that a step which *)
(* rewrites a concept and is not the owner's is no step of this module.     *)
(***************************************************************************)
EXTENDS Naturals

CONSTANTS Id, Navn, Ingen

VARIABLES
  navn, forelder,   \* name and parent per id; Ingen is NULL / no row
  forvaltet         \* history: how many edits the owner has made

vars == <<navn, forelder, forvaltet>>

Kjent == {x \in Id : navn[x] # Ingen}

\* No two concepts share a name.
NavnUnikt == \A x, y \in Kjent : navn[x] = navn[y] => x = y

\* A parent is itself a concept of the list.
ForelderKjent == \A x \in Id : forelder[x] \in Kjent \cup {Ingen}

\* No cycle: every set of concepts has one whose parent lies outside it.
Asyklisk == \A S \in SUBSET Kjent : S # {} => \E x \in S : forelder[x] \notin S

VelFormet == NavnUnikt /\ ForelderKjent /\ Asyklisk

Init == /\ navn = [x \in Id |-> Ingen]
        /\ forelder = [x \in Id |-> Ingen]
        /\ forvaltet = 0

\* New concepts are added; the ones already there keep name and parent.  That is
\* all that anybody but the owner may do.
Utvid == /\ navn' \in [Id -> Navn \cup {Ingen}]
         /\ forelder' \in [Id -> Id \cup {Ingen}]
         /\ \A x \in Kjent : navn'[x] = navn[x] /\ forelder'[x] = forelder[x]
         /\ VelFormet'
         /\ UNCHANGED forvaltet

\* The owner creates or rewrites one concept and leaves the others alone.
Forvalt(x) == /\ navn' \in [Id -> Navn \cup {Ingen}]
              /\ forelder' \in [Id -> Id \cup {Ingen}]
              /\ navn'[x] # Ingen
              /\ \A y \in Id \ {x} : navn'[y] = navn[y] /\ forelder'[y] = forelder[y]
              /\ VelFormet'
              /\ forvaltet' = forvaltet + 1

Next == Utvid \/ \E x \in Id : Forvalt(x)

Spec == Init /\ [][Next]_vars
=============================================================================
