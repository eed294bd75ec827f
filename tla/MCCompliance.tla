---------------------------- MODULE MCCompliance ----------------------------
(* An instance of Compliance for TLC.                                       *)
EXTENDS Compliance, TLC

\* A line of each kind the sections are made of, and what the baseline tells
\* apart: a timeout within the limit and one beyond it, an allowed VLAN and
\* another, both interfaces, a banner with its delimiter and one without.
MCLines ==
    {<<"line vty", 0>>, <<"section", 0>>, <<"exec-timeout", 5>>, <<"exec-timeout", 15>>,
     <<"no exec-timeout", 0>>, <<"interface", "e1">>, <<"interface", "e2">>,
     <<"shutdown", 0>>, <<"access vlan", "10">>, <<"access vlan", "99">>,
     <<"no cdp run", 0>>, <<"no cdp enable", 0>>,
     <<"banner login", "^">>, <<"banner login", "none">>,
     <<"text", "^">>, <<"text", "authorized">>}

MCMatching == {<<"text", "authorized">>}

=============================================================================
