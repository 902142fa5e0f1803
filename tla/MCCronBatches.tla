--------------------------- MODULE MCCronBatches ---------------------------
EXTENDS CronBatches
CONSTANTS v1, v2, v3
FirstTwo == <<v1, v2>>
MCSettings == {<<{"vaults"}, 0>>, <<{"vaults"}, 2>>, <<{"members"}, 0>>}
=============================================================================
