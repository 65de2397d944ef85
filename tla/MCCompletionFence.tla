--------------------------- MODULE MCCompletionFence ---------------------------
(* Two subscriptions; the callback of the second may cancel both, that of the *)
(* first its own.                                                             *)
EXTENDS CompletionFence
MCCallbackCancels == {<<1, 1>>, <<2, 1>>, <<2, 2>>}
===============================================================================
