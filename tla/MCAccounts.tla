----------------------------- MODULE MCAccounts -----------------------------
(* A small instance of Accounts: two requests, one address, one Google account. *)
EXTENDS Accounts

\* Sessions, passwords, sign-up and the cache, each with what interferes with it
MCMixes ==
    {{"register", "login", "refresh", "logout", "expire"},
     {"register", "login", "change"},
     {"register", "refresh", "change"},
     {"register", "refresh", "deactivate", "activate"},
     {"register", "refresh", "forgot", "reset"},
     {"register", "forgot", "reset", "change"},
     {"register", "forgot", "reset", "expire"},
     {"register", "login", "oauth", "delete"},
     {"register", "validate", "switch", "deactivate", "activate"},
     {"register", "validate", "delete"}}
=============================================================================
