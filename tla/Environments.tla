----------------------------- MODULE Environments -----------------------------
(***************************************************************************)
(* The environment variables of a predicate's child, as the runner          *)
(* (_minimal_environment in predicate.py) and the exported reproduce.py     *)
(* (trial in export.py) put them together from the host's environment and   *)
(* the one the capsule has captured.  Only what the two tell apart is kept: *)
(* one name of each class, and where its value comes from.                  *)
(***************************************************************************)
Locale == {"LANG"}             \* SYSTEMROOT, ..., LANG, LC_ALL: passed through
Proxies == {"HTTP_PROXY"}      \* _PROXY_NAMES, compared in upper case
Providers == {"OPENAI_KEY"}    \* anything with a provider's prefix
Fixed == {"HOME"}              \* HOME, TMP, PYTHONPATH, RUNSIEVE_*: the run's own
Names == Locale \union Proxies \union Providers \union Fixed \union {"DATA"}

Withheld == Proxies \union Providers

\* What the fixed assignments at the end leave of a name that has value v.
Overlay(v) == [n \in Names |-> IF n \in Fixed THEN "fixed"
                               ELSE IF n \in Proxies THEN "empty" ELSE v[n]]

\* The host's locale first, the captured values over it.
MinimalEnvironment(host, captured) ==
    Overlay([n \in Names |-> IF n \in captured \ Withheld THEN "captured"
                             ELSE IF n \in host \intersect Locale THEN "host"
                             ELSE "unset"])

\* A mutant of TrialEnvironment: the whole environment of the host is kept.
TrialEnvironmentInherited(host, captured) ==
    Overlay([n \in Names |-> IF n \in host THEN "host"
                             ELSE IF n \in captured \ Withheld THEN "captured"
                             ELSE "unset"])

\* The captured values first, the host's locale over them.
TrialEnvironment(host, captured) ==
    Overlay([n \in Names |-> IF n \in host \intersect Locale THEN "host"
                             ELSE IF n \in captured \ Withheld THEN "captured"
                             ELSE "unset"])
===============================================================================
