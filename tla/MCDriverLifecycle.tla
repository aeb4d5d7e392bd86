-------------------------- MODULE MCDriverLifecycle --------------------------
EXTENDS DriverDiscipline

AllDrivers == DOMAIN Scripts
=============================================================================
