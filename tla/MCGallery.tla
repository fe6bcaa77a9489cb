------------------------------ MODULE MCGallery ------------------------------
(* Values of Gallery's constants for TLC: photos a and b, and c that is added. *)
EXTENDS Gallery

Ask(op, i, cover) == [op |-> op, image |-> i, cover |-> cover]

Promotion(i) == Ask("update", i, "true")
Added == Ask("add", "d", "true")
Patches == {Ask("update", "a", "false"), Ask("update", "a", "unset"), Ask("update", "b", "false")}
Others == {Ask("delete", "a", "unset"), Ask("delete", "b", "unset"), Ask("add", "c", "false")}

MCImages == {"a", "b", "c", "d"}
MCGalleries == {[i \in MCImages |-> IF i = "a" THEN first
                                   ELSE IF i = "b" THEN "plain" ELSE "none"] :
                   first \in {"plain", "cover"}}

\* Three promotions, or two with other requests to the same photos.
MCLoads ==
  {<<Promotion("b"), Promotion(i), Added, Ask("delete", "b", "unset")>> : i \in {"a", "b"}}
  \cup {<<Promotion("b"), Added, x, y>> : x \in Patches, y \in Others}
  \cup {<<Promotion("b"), Added, Ask("translate", "b", "unset"), Ask("delete", "b", "unset")>>}
=============================================================================
