----------------------------- MODULE MCI2CHost -----------------------------
(* Instances of I2CHost for TLC: a device with a 7-bit address, one with a *)
(* 10-bit address and one whose address is refused; bytes that are and are *)
(* not like the first byte of one.                                         *)
EXTENDS I2CHost, TLC

MCAddresses == {<<80, 0>>, <<677, 1>>, <<1024, 0>>}
MCBytes == {66, 243}
MCLines == {<<6, 7>>}

ThreadSymmetry == Permutations(Threads)
=============================================================================
