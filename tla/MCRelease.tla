----------------------------- MODULE MCRelease -----------------------------
(* Instances of Release for TLC. *)
EXTENDS Release

CONSTANTS kasa, other

\* 0.1.0
MC_First == Stable(<<0, 1, 0>>)

\* --preid alpha, beta and rc rank 0, 1 and 2.
MC_AlphaAndRc == {0, 2}

MC_ZeroPadded(n) == [Number(n) EXCEPT !.zeros = 1]

\* 0.1.0+build, 1.0.0-0, 1.0.0-00, 1.0.0-alpha, 1.0.0-alpha.beta, 1.0.0-alpha.01,
\* 1.0.0-alpha.1.beta
MC_Samples ==
    {[MC_First EXCEPT !.build = TRUE],
     WithPrerelease(Stable(<<1, 0, 0>>), <<Number(0)>>),
     WithPrerelease(Stable(<<1, 0, 0>>), <<MC_ZeroPadded(0)>>),
     WithPrerelease(Stable(<<1, 0, 0>>), <<Name(0)>>),
     WithPrerelease(Stable(<<1, 0, 0>>), <<Name(0), Name(1)>>),
     WithPrerelease(Stable(<<1, 0, 0>>), <<Name(0), MC_ZeroPadded(1)>>),
     WithPrerelease(Stable(<<1, 0, 0>>), <<Name(0), Number(1), Name(1)>>)}
============================================================================
