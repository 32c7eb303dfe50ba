--------------------------- MODULE MCCredentials ---------------------------
\* Small instances of Credentials for TLC: each configuration is one workload.
EXTENDS Credentials, TLC

Plain == [ops |-> {}, faults |-> {}, requireVerification |-> FALSE,
          verified |-> TRUE, keyed |-> TRUE, factored |-> FALSE]
WithFactor == [Plain EXCEPT !.factored = TRUE]

\* Changes of the password beside logins and the take-over of the account.
Owners == [Plain EXCEPT !.verified = FALSE, !.ops = {"login", "set", "takeOver"}]
\* A first password beside another, and changes beside logins that await a challenge.
Newcomers == [Plain EXCEPT !.keyed = FALSE, !.ops = {"set", "age"}, !.faults = {"revoke"}]
Changing == [Plain EXCEPT !.ops = {"set", "login"}, !.faults = {"session"}]
Challenged == [WithFactor EXCEPT !.ops = {"set", "hostLogin", "login", "challenge"},
                                 !.faults = {"hook", "pend", "revoke"}]
\* Reset links of accounts with a password and without, verified or not.
Forgetful == [Plain EXCEPT !.ops = {"ask", "reset", "set", "lapse"}, !.faults = {"spend"}]
Unkeyed == [Forgetful EXCEPT !.keyed = FALSE, !.ops = {"ask", "reset", "status"}]
Squatted == [Forgetful EXCEPT !.verified = FALSE, !.ops = {"ask", "reset", "takeOver"}]
\* Verification links.
Unproved == [Plain EXCEPT !.verified = FALSE, !.requireVerification = TRUE,
                          !.ops = {"resend", "verify", "login", "lapse", "hostLogin"}]
\* Factors and recovery codes.
Guarded == [WithFactor EXCEPT !.ops = {"hostLogin", "challenge", "complete", "hostEnrol"},
                              !.faults = {"code"}]
Keyholders == [WithFactor EXCEPT !.ops = {"enrol", "confirm", "drop", "login"},
                                 !.faults = {"confirm", "wipe"}]
Renewed == [WithFactor EXCEPT !.verified = FALSE, !.ops = {"hostEnrol", "takeOver", "login", "challenge"},
                              !.faults = {"second", "confirm"}]

Workloads == {Owners, Newcomers, Changing, Challenged, Forgetful, Unkeyed, Squatted, Unproved,
              Guarded, Keyholders, Renewed}

\* Secrets and slots are alike; ids are minted in a fixed order.
Symmetry == Permutations(Secrets) \cup Permutations(Requests)
=============================================================================
