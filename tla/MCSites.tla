------------------------------ MODULE MCSites ------------------------------
EXTENDS Sites

ConstWords == {"a", "A", "b", "c", "wildcard"}
ConstLower == [w \in ConstWords |-> IF w = "A" THEN "a" ELSE w]

ac    == <<<<"a">>, <<"c">>>>            \* a.c
Ac    == <<<<"A">>, <<"c">>>>            \* A.c
abc   == <<<<"a">>, <<"b">>, <<"c">>>>   \* a.b.c
a_bc  == <<<<"a", "b">>, <<"c">>>>       \* a-b.c
anyac == <<<<"*">>, <<"a">>, <<"c">>>>   \* *.a.c
anyc  == <<<<"*">>, <<"c">>>>            \* *.c, refused
_ac   == <<<<"", "a">>, <<"c">>>>        \* -a.c, refused
ConstDomains == {ac, Ac, abc, a_bc, anyac, anyc, _ac}

ConstModeInputs == {"On", "Off", "on"}
ConstFound == {GenerateMode(ac, "Future")}

Ex(type, value, param) == [type |-> type, value |-> value, param |-> param]
Junk == Ex("id", "sqli", None)
ConstExclusions == {Ex("id", "942100", None), Ex("id", "942100", "q"), Ex("tag", "sqli", "q")}
ConstExclusionLists == {<<>>, <<Junk>>} \cup (ConstExclusions \X ConstExclusions)
ConstExclusionInputs == {Ex("id", "942100", "q"), Ex("id", "942100", None), Ex("id", "920", "q"), Junk}

ConstMapped == <<1>>

ConstIPEntries == IPEntry \cup {[fam |-> 4, addr |-> <<0>>, len |-> W4 + 1]}
ConstIPRuleSets ==
    [deny : {<<>>}, allow : {<<>>} \cup {<<e>> : e \in ConstIPEntries}] \cup
    [deny : {<<e>> : e \in ConstIPEntries}, allow : {<<>>}]
ConstIPInputs ==
    {[fam |-> 4, addr |-> <<1>>, len |-> None], [fam |-> 6, addr |-> <<1, 0>>, len |-> None],
     [fam |-> 6, addr |-> <<1, 1>>, len |-> 1], [fam |-> 4, addr |-> <<0>>, len |-> W4 + 1]}

ConstScopes ==
    {[types |-> {"waf"}, names |-> ConstDomains, ops |-> 3],
     [types |-> {"exclusions"}, names |-> {ac, Ac}, ops |-> 3],
     [types |-> {"ip-rules"}, names |-> {ac, _ac}, ops |-> 3],
     [types |-> Types, names |-> {ac}, ops |-> 1]}
=============================================================================
