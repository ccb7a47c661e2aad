---------------------------- MODULE MCAssistant ----------------------------
EXTENDS Assistant

\* A client and a contact are claimed, a client is made an employee, and the
\* owner claims herself.
MCClaims == {<<Client, "client">>, <<Client, "employee">>, <<Contact, "client">>,
             <<Owner, "client">>}
=============================================================================
