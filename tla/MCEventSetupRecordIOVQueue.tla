--------------------- MODULE MCEventSetupRecordIOVQueue ---------------------
(* Two records, one of which allows only one IOV at a time.                *)
EXTENDS EventSetupRecordIOVQueue

MCConcurrent == <<1, 2>>
=============================================================================
