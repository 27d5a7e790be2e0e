---------------------------- MODULE MCAuditLog ----------------------------
EXTENDS AuditLog

Denied   == [id |-> TRUE, action |-> "", interrupted |-> FALSE,
             sets |-> <<<<"other">>, <<"other", "deny">>>>, hit |-> TRUE]
Passed   == [Denied EXCEPT !.sets = <<<<"pass">>>>]

\* With Filter = "BLOCKED" the first is listed and the second is not.
TwoTransactions == {Denied, Passed}
OneTransaction == {Denied}
=============================================================================
