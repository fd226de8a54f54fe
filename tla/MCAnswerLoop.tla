---------------------------- MODULE MCAnswerLoop ----------------------------
EXTENDS AnswerLoop, TLC

Ask(intent, resource, risk, web, wantsLink) ==
    [intent |-> intent, resource |-> resource, risk |-> risk, web |-> web,
     wantsLink |-> wantsLink]

\* Every intent, with the resources, risks and web modes that change its course.
MCRequests ==
    {Ask("plain", "none", "low", "always", TRUE), Ask("plain", "link", "low", "auto", FALSE),
     Ask("plain", "document", "high", "auto", FALSE),
     Ask("artifact", "none", "low", "auto", FALSE), Ask("artifact", "none", "low", "always", TRUE),
     Ask("artifact_calculation", "none", "low", "auto", FALSE),
     Ask("pumpdown", "none", "low", "auto", FALSE), Ask("pumpdown", "none", "low", "fresh", FALSE),
     Ask("scope", "none", "low", "auto", FALSE)}

\* Call ids are interchangeable.
Symmetry == Permutations(Calls)
=============================================================================
