------------------------------- MODULE MCFetch -------------------------------
(***************************************************************************)
(* Two fetches through a pool of one connection: two allowed names, an     *)
(* allowed literal in the link-local range, a name not allowed, and every  *)
(* other fault a URL can have.                                             *)
(***************************************************************************)
EXTENDS Fetch

MCHosts    == {"docs", "wiki", "local", "elsewhere"}
MCAllowed  == {"docs", "wiki", "local"}
MCLiterals == {"local"}

Url(scheme, host) == [parses |-> TRUE, scheme |-> scheme, host |-> host]

MCLocations == {Url("http", "docs"), Url("https", "docs"), Url("http", "wiki"),
                Url("other", "docs"), Url("http", "none")}

Unparsable == [parses |-> FALSE, scheme |-> "other", host |-> "none"]

MCUrls == MCLocations \cup
    {Url("http", "local"), Url("http", "elsewhere"), Unparsable}

Head(status, location, text, declared, body) ==
    [status |-> status, location |-> location, text |-> text,
     declared |-> declared, body |-> body]

\* Redirects anywhere, an error, and bodies about a cap of two bytes whose
\* declared length need not be the real one.
MCResponses ==
    {Head("redirect", l, TRUE, {}, 0) :
        l \in {{}} \cup {{u} : u \in MCLocations \cup {Unparsable}}}
    \cup {Head("error", {}, TRUE, {}, 1), Head("success", {}, FALSE, {1}, 1)}
    \cup {Head("success", {}, TRUE, d, b) : d \in {{}, {1}, {3}}, b \in {0, 2, 3}}
=============================================================================
