----------------------------- MODULE MCCatalog -----------------------------
(***************************************************************************)
(* The instance of Catalog for TLC: one package in two versions, the newer *)
(* one built for two architectures and for any.  Catalog takes versions as *)
(* ordered; a behaviour is one of Catalog, or goes through a pair of       *)
(* versions as they are written.                                           *)
(***************************************************************************)
EXTENDS Catalog, Versions

CONSTANTS old, amd, arm, both, amdIndex, armIndex, c1

ThePackage   == {"curl"}
AllArtifacts == {old, amd, arm, both}
TwoIndexes   == {amdIndex, armIndex}
OneClient    == {c1}

Built ==
  [a \in AllArtifacts |->
     [package |-> "curl",
      version |-> IF a = old THEN 1 ELSE 2,
      arch    |-> CASE a = arm  -> "arm64"
                    [] a = both -> "all"
                    [] OTHER    -> "amd64"]]

SomeEditions == {{old, both}, {amd, arm, both}}

\* Versions of a few bytes, which also are epochs and revisions.
Bytes     == {Zero, Zero + 1, Letter_r, Tilde, Dash}
MaxBytes  == 3   \* of a version without its separators
Epochs    == {<<>>, <<Zero + 1>>}
Revisions == {<<>>, <<Zero>>, <<Zero + 1>>, <<Zero + 1, Zero + 1>>, <<Letter_r>>, <<Tilde>>}

Texts == UNION {[1..n -> Bytes] : n \in 0..MaxBytes}

ShortVersions ==
  {v \in [epoch : Epochs, text : Texts, revision : Revisions] :
     Len(v.epoch) + Len(v.text) + Len(v.revision) <= MaxBytes}

-----------------------------------------------------------------------------
VARIABLE subject

pair == <<left, right>>

NoVersion == [epoch |-> <<>>, text |-> <<>>, revision |-> <<>>]

CatalogInit ==
  /\ subject \in {"catalog", "versions"} /\ Init
  /\ IF subject = "versions" THEN PairInit ELSE left = NoVersion /\ right = NoVersion

CatalogNext ==
  \/ subject = "catalog" /\ Next /\ UNCHANGED <<subject, pair>>
  \/ subject = "versions" /\ PairNext /\ UNCHANGED <<subject, vars>>

CatalogSpec == CatalogInit /\ [][CatalogNext]_<<subject, vars, pair>>
=============================================================================
