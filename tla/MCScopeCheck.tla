--------------------------- MODULE MCScopeCheck ---------------------------
(* Names for TLC: two plain ones, and one that looks like a renamed one.     *)
EXTENDS ScopeCheck

CONSTANTS a, b

Plain(x) == [base |-> x, sfx |-> <<>>]
MCBase == {a, b}
OneName == {Plain(a)}
TwoNames == {Plain(a), Plain(b)}
RenameNames == {Plain(a), Plain(b), [base |-> a, sfx |-> <<1>>]}
SuffixNames == {Plain(a), [base |-> a, sfx |-> <<1>>]}
===========================================================================
