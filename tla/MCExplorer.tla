----------------------------- MODULE MCExplorer -----------------------------
(* A small web application for Explorer: a home page with a sign-out link, a *)
(* link to a list and a form; the list links back and to an allowed origin,  *)
(* whose page links to one that is not allowed.                              *)
EXTENDS Explorer

CONSTANTS home, list, out, bye, ext, pay

El(url, to, risky, submits) ==
    [url |-> url, to |-> to, risky |-> risky, submits |-> submits]

MCElements ==
    [p \in Pages |->
        CASE p = home -> <<El(out, NoPage, TRUE, FALSE), El(list, NoPage, FALSE, FALSE),
                           El(NoPage, list, FALSE, TRUE)>>
          [] p = list -> <<El(home, NoPage, FALSE, FALSE), El(ext, NoPage, FALSE, FALSE)>>
          [] p = ext -> <<El(pay, NoPage, FALSE, FALSE)>>
          [] OTHER -> <<>>]

\* Signing out redirects to a page without controls.
MCLands == [p \in Pages |-> IF p = out THEN bye ELSE p]

\* The list and the other origin's page look alike.
MCFpOf == [p \in Pages |-> CASE p = home -> "h" [] p \in {list, ext} -> "l" [] OTHER -> "b"]
MCFps == {"h", "l", "b"}
=============================================================================
