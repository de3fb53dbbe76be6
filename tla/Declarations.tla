---------------------------- MODULE Declarations ----------------------------
(***************************************************************************)
(* The messages of the protocol as the client declares them                *)
(* (src/utmremote/utmremotemessage.py, src/utmremote/utmconfiguration.py). *)
(* A message is named where the code has its number; the numbers of either *)
(* enumeration are those of its names in order.                            *)
(***************************************************************************)
EXTENDS Types

-----------------------------------------------------------------------------
(* utmconfiguration.py                                                     *)

Information ==
    Class(Strs({"Name", "Icon", "Notes", "UUID"}) ++ Bools({"IconCustom"}))

Terminal ==
    Class(Strs({"Theme", "ForegroundColor", "BackgroundColor", "Font",
                "ResizeCommand"})
          ++ Ints({"FontSize"}) ++ Bools({"CursorBlink"}))

Display ==
    Class(Strs({"Hardware", "UpscalingFilter", "DownscalingFilter"})
          ++ Ints({"VgaRamMib"})
          ++ Bools({"DynamicResolution", "NativeResolution"}))

Drive ==
    Class(Strs({"ImageName", "ImageType", "Interface", "Identifier"})
          ++ Ints({"InterfaceVersion"}) ++ Bools({"ReadOnly"}))

Input ==
    Class(Strs({"UsbBusSupport"}) ++ Bools({"UsbSharing"})
          ++ Ints({"MaximumUsbShare"}))

PortForward ==
    Class(Strs({"Protocol", "HostAddress", "GuestAddress"})
          ++ Ints({"HostPort", "GuestPort"}))

Network ==
    Class(Strs({"Mode", "Hardware", "MacAddress", "BridgeInterface",
                "VlanGuestAddress", "VlanGuestAddressIPv6", "VlanHostAddress",
                "VlanHostAddressIPv6", "VlanDhcpStartAddress",
                "VlanDhcpEndAddress", "VlanDhcpDomain",
                "VlanDnsServerAddress", "VlanDnsServerAddressIPv6",
                "VlanDnsSearchDomain", "HostNetUuid"})
          ++ Bools({"IsolateFromHost"})
          ++ [PortForward |-> ListOf(PortForward)])

QEMU ==
    Class(Bools({"DebugLog", "UEFIBoot", "RNGDevice", "BalloonDevice",
                 "TPMDevice", "Hypervisor", "TSO", "RTCLocalTime",
                 "PS2Controller"})
          ++ Strs({"MachinePropertyOverride"})
          ++ [AdditionalArguments |-> ListOf(StrType)])

Serial ==
    Class(Strs({"Mode", "Target", "Hardware", "TcpHostAddress"})
          ++ Ints({"TcpPort"})
          ++ Bools({"WaitForConnection", "RemoteConnectionAllowed"})
          ++ [Terminal |-> Terminal])

Sharing ==
    Class(Strs({"DirectoryShareMode"})
          ++ Bools({"DirectoryShareReadOnly", "ClipboardSharing"}))

Sound == Class(Strs({"Hardware"}))

System ==
    Class(Strs({"Architecture", "Target", "CPU"})
          ++ Ints({"CPUCount", "MemorySize", "JITCacheSize"})
          ++ Bools({"ForceMulticore"})
          ++ [n \in {"CPUFlagsAdd", "CPUFlagsRemove"} |-> ListOf(StrType)])

QemuConfiguration ==
    Class([Information |-> Information, System |-> System, QEMU |-> QEMU,
           Input |-> Input, Sharing |-> Sharing, Display |-> ListOf(Display),
           Drive |-> ListOf(Drive), Network |-> ListOf(Network),
           Serial |-> ListOf(Serial), Sound |-> ListOf(Sound),
           Backend |-> StrType, ConfigurationVersion |-> IntType])

-----------------------------------------------------------------------------
(* utmremotemessage.py                                                     *)

VirtualMachineState == MemberType(8)
StopMethod == MemberType(2)

ServerInformation ==
    Class(Ints({"spicePortInternal", "spicePortExternal"})
          ++ Strs({"spiceHostExternal", "spicePassword"})
          ++ [spicePublicKey |-> BytesType])

VirtualMachineInformation ==
    Class(Strs({"id", "name", "path", "backend"})
          ++ Bools({"isShortcut", "isSuspended", "isTakeoverAllowed"})
          ++ [state |-> VirtualMachineState, mountedDrives |-> DictOf(StrType)])

Exchange(request, reply) == [request |-> Class(request), reply |-> Class(reply)]

Id == Strs({"id"})
Ids == [ids |-> ListOf(StrType)]
PackageFile ==
    Strs({"id", "lastModified"}) ++ [relativePathComponents |-> ListOf(StrType)]

\* UTMRemoteMessageServer
SM == [
    serverHandshake |->
        Exchange([version |-> IntType, password |-> StrType],
                 [version |-> IntType, isAuthenticated |-> BoolType,
                  capabilities |-> IntType, model |-> StrType]),
    listVirtualMachines |-> Exchange(NoFields, Ids),
    reorderVirtualMachines |-> Exchange(Ids ++ Ints({"offset"}), NoFields),
    getVirtualMachineInformation |->
        Exchange(Ids, [informations |-> ListOf(VirtualMachineInformation)]),
    getQEMUConfiguration |-> Exchange(Id, [configuration |-> QemuConfiguration]),
    getPackageSize |-> Exchange(Id, Ints({"size"})),
    getPackageFile |->
        Exchange(PackageFile, [data |-> BytesType, lastModified |-> StrType]),
    sendPackageFile |-> Exchange(PackageFile ++ [data |-> BytesType], NoFields),
    deletePackageFile |->
        Exchange(Id ++ [relativePathComponents |-> ListOf(StrType)], NoFields),
    mountGuestToolsOnVirtualMachine |-> Exchange(Id, NoFields),
    startVirtualMachine |->
        Exchange(Id ++ Ints({"options"}), [serverInfo |-> ServerInformation]),
    stopVirtualMachine |-> Exchange(Id ++ [method |-> StopMethod], NoFields),
    restartVirtualMachine |-> Exchange(Id, NoFields),
    pauseVirtualMachine |-> Exchange(Id, NoFields),
    resumeVirtualMachine |-> Exchange(Id, NoFields),
    saveSnapshotVirtualMachine |-> Exchange(Strs({"id", "name"}), NoFields),
    deleteSnapshotVirtualMachine |-> Exchange(Strs({"id", "name"}), NoFields),
    restoreSnapshotVirtualMachine |-> Exchange(Strs({"id", "name"}), NoFields),
    changePointerTypeVirtualMachine |->
        Exchange(Id ++ Bools({"isTabletMode"}), NoFields)]

\* UTMRemoteMessageClient
CM == [
    clientHandshake |->
        Exchange(Ints({"version"}), Ints({"version", "capabilities"})),
    listHasChanged |-> Exchange(Ids, NoFields),
    qemuConfigurationHasChanged |->
        Exchange(Id ++ [configuration |-> QemuConfiguration], NoFields),
    mountedDrivesHasChanged |->
        Exchange(Id ++ [mountedDrives |-> DictOf(StrType)], NoFields),
    virtualMachineDidTransition |->
        Exchange(Id ++ [state |-> VirtualMachineState]
                    ++ Bools({"isTakeoverAllowed"}), NoFields),
    virtualMachineDidError |-> Exchange(Strs({"id", "errorMessage"}), NoFields)]
=============================================================================
