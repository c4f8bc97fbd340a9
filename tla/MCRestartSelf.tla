--------------------------- MODULE MCRestartSelf ---------------------------
(***************************************************************************)
(* RestartSelf over the most liberal criteria that keep the contract: a    *)
(* job is a set of defects together with a variant, criterion c objects to *)
(* defect c, and its fix removes c, possibly other defects as well, and    *)
(* may change the variant.                                                 *)
(***************************************************************************)
EXTENDS RestartSelf

CONSTANT Variants

MCJob == [defects : SUBSET (1 .. NumCriteria), variant : Variants]
MCNeeds(c, j) == c \in j.defects
MCFixes(c, j, new) == new.defects \subseteq j.defects \ {c}
=============================================================================
