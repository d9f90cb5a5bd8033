------------------------------ MODULE MCJailViews ------------------------------
(* Two tabs; the user launches a container in the one, deletes one in the *)
(* other and leaves that one.                                             *)
EXTENDS JailViews, TLC

CONSTANTS t1, t2, launch, remove

MCTabs == {t1, t2}
MCVisible == {t1}
MCActions == {launch, remove}
MCBy == launch :> t1 @@ remove :> t2
MCDeletes == {remove}
===============================================================================
