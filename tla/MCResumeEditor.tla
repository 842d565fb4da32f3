--------------------------- MODULE MCResumeEditor ---------------------------
(* ResumeEditor for TLC: two promoted sections, the first with an entity and its *)
(* bullet; another section and another entity can be created.                   *)
EXTENDS ResumeEditor, TLC

CONSTANTS section1, section2, section3, entity1, entity2, bullet1

MCItems == {section1, section2, section3, entity1, entity2, bullet1}

MCParent == section1 :> Root @@ section2 :> Root @@ section3 :> Root
              @@ entity1 :> section1 @@ entity2 :> section1 @@ bullet1 :> entity1

MCPromoted == {<<section1, 0>>, <<section2, 1>>, <<entity1, 0>>, <<bullet1, 0>>}
=============================================================================
