----------------------------- MODULE MCStartup -----------------------------
(* Instances of Startup: every mix of settings on one system, and every    *)
(* system and account with good settings.                                  *)
EXTENDS Startup

Good ==
    {[mode |-> "normal", userdb |-> "List", update |-> TRUE,
      method |-> "LMTP", settings |-> TRUE, limit |-> "number",
      ssl |-> TRUE, starttls |-> TRUE, certificate |-> "usable", port |-> "low",
      posix |-> TRUE, root |-> TRUE, drop |-> TRUE, account |-> "there",
      threads |-> "DEFAULT"]}

AllSettings ==
    {[c EXCEPT !.mode = m, !.userdb = u, !.update = r, !.method = d, !.settings = s,
               !.limit = l, !.threads = t] :
        c \in Good, m \in {"normal", "other"}, u \in {"List", "LDAP", "unknown"},
        r \in BOOLEAN, d \in {"Filesystem", "LMTP", "Dummy", "unknown"}, s \in BOOLEAN,
        l \in {"number", "inf", "nan", "text", "unknown unit"},
        t \in {"DEFAULT", "number", "not a number"}}

AllSystems ==
    {[c EXCEPT !.ssl = s, !.starttls = e, !.certificate = k, !.port = p, !.posix = x,
               !.root = r, !.drop = d, !.account = a] :
        c \in Good, s \in BOOLEAN, e \in BOOLEAN, k \in {"none", "unusable", "usable"},
        p \in {"free", "taken", "low"}, x \in BOOLEAN, r \in BOOLEAN, d \in BOOLEAN,
        a \in {"there", "no user", "no group"}}

SomeConfigs == AllSettings \cup AllSystems

=============================================================================
