----------------------------- MODULE MCOtaUpdate -----------------------------
(* OtaUpdate for TLC: images of up to two blocks of two kinds, read one or two *)
(* at a time; an image must start with block 1.  The checksum collides, the    *)
(* digest does not.                                                            *)
EXTENDS OtaUpdate

MCBlock == 1..2
MCCrc(s) == IF s = <<>> THEN 0 ELSE Len(s)
MCSha(s) == s
MCBootable(s) == s # <<>> /\ s[1] = 1
MCShipped == {<<1>>}
MCDigest == {<<1, 1>>, <<1, 2>>, <<2>>}
MCRead == {<<1>>, <<2>>, <<1, 2>>}
=============================================================================
