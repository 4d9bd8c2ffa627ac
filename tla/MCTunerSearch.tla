---------------------------- MODULE MCTunerSearch ----------------------------
(***************************************************************************)
(* Two mutation steps that commute in the emitted code, so that recipes    *)
(* collide; two flag profiles; one preset of a single step, so that the    *)
(* lookahead still has a pair of steps to find.                            *)
(***************************************************************************)
EXTENDS TunerSearch

CONSTANTS s1, s2, f0, f1

MCSteps == {s1, s2}
MCExplored == {f0, f1}
MCPresets == {<<s1>>}
MCEmit(ast) == {ast[i] : i \in DOMAIN ast}
MCStructure(score) == score \div 2
=============================================================================
