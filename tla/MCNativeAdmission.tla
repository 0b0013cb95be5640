-------------------------- MODULE MCNativeAdmission ---------------------------
EXTENDS NativeAdmission, TLC

CONSTANTS s, d1, d2, a, b

\* The store is in a directory of another one.
MCStorePath == <<b, b>>
MCFirstPlace == (s :> [up |-> d1, name |-> b]) @@ (d1 :> [up |-> Top, name |-> b])
                @@ (d2 :> [up |-> Top, name |-> a])

\* One path of a user's contains the store's.
MCPaths == {<<a>>, <<b>>, <<b, a>>}
=============================================================================
