---------------------------- MODULE MCWafBuilder ----------------------------
(* WafBuilder with a few paths and configurations, for TLC.                *)
EXTENDS WafBuilder

CONSTANTS rules, data, broken

(* Characters of one byte, and one of two.                                 *)
a == <<97>>
b == <<98>>
e == <<195, 169>>   \* e with an acute accent

(* "a", "b" and "ab".                                                      *)
AsciiPaths == {<<a>>, <<b>>, <<a, b>>}

(* Two that differ behind the character of two bytes: their keys are its   *)
(* two bytes.                                                              *)
AccentedPaths == {<<e, a>>, <<e, b>>}

MixedPaths == {<<a, a>>, <<a, b>>} \cup AccentedPaths
=============================================================================
