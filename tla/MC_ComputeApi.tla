---------------------------- MODULE MC_ComputeApi ----------------------------
EXTENDS ComputeApi

CONSTANTS admin, u1

\* The default rule of the keypairs policies: admin_api, or the caller is
\* the user acted on.
MCPolicy == {<<admin, t>> : t \in {admin, u1}} \cup {<<u1, u1>>}

\* 2.1, 2.2, 2.10, 2.35, 2.91, 2.92: each side of every version switch.
MCVersions == {1, 2, 10, 35, 91, 92}

=============================================================================
