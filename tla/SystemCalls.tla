---------------------------- MODULE SystemCalls ----------------------------
(***************************************************************************)
(* The system calls (examples/freertos/portable/Common/mpu_wrappers.c).    *)
(* Every wrapper raises the privilege, calls the kernel function of its    *)
(* name and resets the privilege.  What the function means to the port is  *)
(* its effect: "creates" tasks, rewrites MPU "regions", may ask for a      *)
(* context switch ("yields": also whatever suspends and resumes the        *)
(* scheduler, such as the memory manager), or none of these ("stays").     *)
(* Listed are those that nonsecure-common/FreeRTOSConfig.h turns on.       *)
(***************************************************************************)

Effects == {"creates", "regions", "yields", "stays"}

LifetimeCalls ==
  [creates |-> {"xTaskCreateRestricted", "xTaskCreateRestrictedStatic",
                "xTaskCreate", "xTaskCreateStatic"},
   regions |-> {"vTaskAllocateMPURegions"},
   yields  |-> {"vTaskDelete", "vTaskDelayUntil", "vTaskDelay", "vTaskPrioritySet"},
   stays   |-> {"uxTaskPriorityGet"}]

StateCalls ==
  [creates |-> {}, regions |-> {},
   yields  |-> {"vTaskSuspend", "vTaskResume", "xTaskResumeAll", "vTaskGetInfo"},
   stays   |-> {"eTaskGetState", "vTaskSuspendAll", "xTaskGetTickCount",
                "uxTaskGetNumberOfTasks", "pcTaskGetName"}]

NotificationCalls ==
  [creates |-> {}, regions |-> {},
   yields  |-> {"uxTaskGetSystemState", "xTaskGenericNotify", "xTaskNotifyWait",
                "ulTaskNotifyTake"},
   stays   |-> {"xTaskGetCurrentTaskHandle", "vTaskSetTimeOutState",
                "xTaskCheckForTimeOut", "xTaskNotifyStateClear"}]

QueueCalls ==
  [creates |-> {}, regions |-> {},
   yields  |-> {"xQueueGenericCreate", "xQueueGenericReset", "xQueueGenericSend",
                "xQueueReceive", "xQueuePeek", "xQueueSemaphoreTake",
                "xQueueCreateMutex"},
   stays   |-> {"xQueueGenericCreateStatic", "uxQueueMessagesWaiting",
                "uxQueueSpacesAvailable", "xQueueCreateMutexStatic"}]

MemoryCalls ==
  [creates |-> {}, regions |-> {},
   yields  |-> {"vQueueDelete", "pvPortMalloc", "vPortFree"},
   stays   |-> {"vPortInitialiseBlocks", "xPortGetFreeHeapSize"}]

TimerCalls ==
  [creates |-> {}, regions |-> {},
   yields  |-> {"xTimerCreate", "xTimerPendFunctionCall", "xTimerGenericCommand"},
   stays   |-> {"xTimerCreateStatic", "pvTimerGetTimerID", "vTimerSetTimerID",
                "xTimerIsTimerActive", "xTimerGetTimerDaemonTaskHandle", 
                "vTimerSetReloadMode", "pcTimerGetName", "xTimerGetPeriod", "xTimerGetExpiryTime"}]

EventGroupCalls ==
  [creates |-> {}, regions |-> {},
   yields  |-> {"xEventGroupCreate", "xEventGroupWaitBits", "xEventGroupSetBits",
                "xEventGroupSync", "vEventGroupDelete"},
   stays   |-> {"xEventGroupCreateStatic", "xEventGroupClearBits"}]

StreamBufferCalls ==
  [creates |-> {}, regions |-> {},
   yields  |-> {"xStreamBufferSend", "xStreamBufferReceive", "vStreamBufferDelete",
                "xStreamBufferGenericCreate"},
   stays   |-> {"xStreamBufferNextMessageLengthBytes", "xStreamBufferIsFull",
                "xStreamBufferIsEmpty", "xStreamBufferReset",
                "xStreamBufferSpacesAvailable", "xStreamBufferBytesAvailable",
                "xStreamBufferSetTriggerLevel",
                "xStreamBufferGenericCreateStatic"}]

Wrappers(effect) ==
  LifetimeCalls[effect] \cup StateCalls[effect] \cup NotificationCalls[effect]
    \cup QueueCalls[effect] \cup MemoryCalls[effect] \cup TimerCalls[effect]
    \cup EventGroupCalls[effect] \cup StreamBufferCalls[effect]

=============================================================================
