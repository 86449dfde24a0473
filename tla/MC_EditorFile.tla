-------------------------- MODULE MC_EditorFile --------------------------
(* Model-checking instance of EditorFile: two texts, two file handles and  *)
(* two promises pending at once, enough for a save to race an edit, a      *)
(* second save or an open.                                                 *)
EXTENDS EditorFile, TLC

CONSTANTS t1, t2, h1, h2

MCTexts == {t1, t2}

MCHandles == {h1, h2}


=============================================================================
